---- MODULE Spec2Model ----
(***************************************************************************)
(* A model of the DataFlow Studio workflow engine (backend/app/engine):    *)
(* the WorkflowExecutor (graph build, Kahn topological sort, run loop,     *)
(* input fan-out), the node kinds it runs and the SafeExpressionParser.    *)
(*                                                                         *)
(* Tables are modelled by their schema (the column names) and by the       *)
(* provenance of their rows: the rows of a table are the term that says    *)
(* which pandas operation produced them from which rows.  DataFrames are   *)
(* objects: the heap maps an object reference to a table value, so that a  *)
(* copy and an alias are different things.  Python dicts are association   *)
(* lists in insertion order.                                               *)
(***************************************************************************)
EXTENDS Integers, Sequences, FiniteSets, TLC

(***************************************************************************)
(* Bounds of the model.                                                    *)
(***************************************************************************)
MaxEdges == 3
MaxCalls == 2
MaxInputs == 2
MaxPieces == 3
MaxRows == 2
MaxAggregations == 2
MaxColumns == 2

(***************************************************************************)
(* Strings the program compares with < (node ids in queue.sort(), port     *)
(* names in sorted(..., key=to_port)), in Python's lexicographic order.    *)
(***************************************************************************)
Lexicographic == <<"a", "b", "c", "in", "in_0", "in_1", "z">>

StrRank(s) == CHOOSE i \in 1..Len(Lexicographic) : Lexicographic[i] = s

StrLt(s, t) == StrRank(s) < StrRank(t)

SeqToSet(s) == {s[i] : i \in 1..Len(s)}

(***************************************************************************)
(* Python dict: an association list <<key, value>> in insertion order.     *)
(***************************************************************************)
DictKeys(d) == [i \in 1..Len(d) |-> d[i][1]]

DictHas(d, k) == \E i \in 1..Len(d) : d[i][1] = k

DictGet(d, k) == d[CHOOSE i \in 1..Len(d) : d[i][1] = k][2]

DictGetOr(d, k, default) == IF DictHas(d, k) THEN DictGet(d, k) ELSE default

DictSet(d, k, v) ==
    IF DictHas(d, k)
    THEN [i \in 1..Len(d) |-> IF d[i][1] = k THEN <<k, v>> ELSE d[i]]
    ELSE Append(d, <<k, v>>)

\* defaultdict(list)[k].append(x)
DictAppend(d, k, x) == DictSet(d, k, Append(DictGetOr(d, k, <<>>), x))

(***************************************************************************)
(* Node configuration: the config dict of a node definition is a record;   *)
(* a config that is not a dict (JSON null) is PyNone.                      *)
(***************************************************************************)
PyNone == [py_none |-> TRUE]

IsNone(config) == "py_none" \in DOMAIN config

ConfigGet(config, key, default) ==
    IF key \in DOMAIN config THEN config[key] ELSE default

(***************************************************************************)
(* NodeResult (nodes/base.py).  data is None, the i-th input object itself *)
(* (a node that returns its input), or a table the node built.             *)
(***************************************************************************)
NoData == [kind |-> "None"]

InputData(i) == [kind |-> "input", idx |-> i]

FreshData(t) == [kind |-> "fresh", value |-> t]

NoMetadata == [empty |-> TRUE]

\* What a call of node.execute does: it returns a NodeResult or raises, and
\* it may have written files, created directories and called methods of
\* self.parser (parsed lists them).
Returns(success, data, error, metadata) ==
    [raised |-> FALSE, success |-> success, data |-> data, error |-> error,
     metadata |-> metadata, written |-> {}, made |-> {}, parsed |-> <<>>]

Fails(error) == Returns(FALSE, NoData, error, NoMetadata)

Raises(message) ==
    [raised |-> TRUE, success |-> FALSE, data |-> NoData, error |-> message,
     metadata |-> NoMetadata, written |-> {}, made |-> {}, parsed |-> <<>>]

AttributeErrorGet == "'NoneType' object has no attribute 'get'"

NumStr(n) == CASE n = 0 -> "0" [] n = 1 -> "1" [] n = 2 -> "2" [] OTHER -> "3"

(***************************************************************************)
(* Expression text (engine/parser.py).  A Python str is the sequence of    *)
(* its characters, so that the regular expressions, str.replace and the    *)
(* tokenizer work on what the code gives them.                             *)
(***************************************************************************)
UpperCase ==
    <<"A", "B", "C", "D", "E", "F", "G", "H", "I", "J", "K", "L", "M",
      "N", "O", "P", "Q", "R", "S", "T", "U", "V", "W", "X", "Y", "Z">>

LowerCase ==
    <<"a", "b", "c", "d", "e", "f", "g", "h", "i", "j", "k", "l", "m",
      "n", "o", "p", "q", "r", "s", "t", "u", "v", "w", "x", "y", "z">>

\* re.IGNORECASE: both sides are compared in lower case.
ToLower(c) ==
    IF \E i \in 1..Len(UpperCase) : UpperCase[i] = c
    THEN LowerCase[CHOOSE i \in 1..Len(UpperCase) : UpperCase[i] = c]
    ELSE c

\* \s
IsSpace(c) == c \in {" ", "\t", "\n"}

Punctuation ==
    {"(", ")", ".", "&", "|", "!", "=", ">", "<", "'", ",", ":", "+", "-",
     "*", "/", "%", "~", "[", "]"}

\* \w
IsWord(c) == ~IsSpace(c) /\ c \notin Punctuation

\* SafeExpressionParser.DANGEROUS_PATTERNS, in the order of the list.  Every
\* pattern is \b, a literal, and one of four tails: \s*\( (call), \s (space),
\* \.\w+ (attr), nothing (prefix); the first one is \b__\w+__\b (dunder).
DANGEROUS_PATTERNS == <<
    [kind |-> "dunder", lit |-> <<>>,
     pattern |-> "\\b__\\w+__\\b"],
    [kind |-> "call", lit |-> <<"e", "x", "e", "c">>,
     pattern |-> "\\bexec\\s*\\("],
    [kind |-> "call", lit |-> <<"e", "v", "a", "l">>,
     pattern |-> "\\beval\\s*\\("],
    [kind |-> "call", lit |-> <<"c", "o", "m", "p", "i", "l", "e">>,
     pattern |-> "\\bcompile\\s*\\("],
    [kind |-> "call", lit |-> <<"o", "p", "e", "n">>,
     pattern |-> "\\bopen\\s*\\("],
    [kind |-> "space", lit |-> <<"i", "m", "p", "o", "r", "t">>,
     pattern |-> "\\bimport\\s"],
    [kind |-> "attr", lit |-> <<"o", "s">>,
     pattern |-> "\\bos\\.\\w+"],
    [kind |-> "attr", lit |-> <<"s", "y", "s">>,
     pattern |-> "\\bsys\\.\\w+"],
    [kind |-> "prefix", lit |-> <<"s", "u", "b", "p", "r", "o", "c", "e", "s", "s">>,
     pattern |-> "\\bsubprocess"],
    [kind |-> "call", lit |-> <<"g", "l", "o", "b", "a", "l", "s">>,
     pattern |-> "\\bglobals\\s*\\("],
    [kind |-> "call", lit |-> <<"l", "o", "c", "a", "l", "s">>,
     pattern |-> "\\blocals\\s*\\("],
    [kind |-> "call", lit |-> <<"g", "e", "t", "a", "t", "t", "r">>,
     pattern |-> "\\bgetattr\\s*\\("],
    [kind |-> "call", lit |-> <<"s", "e", "t", "a", "t", "t", "r">>,
     pattern |-> "\\bsetattr\\s*\\("],
    [kind |-> "call", lit |-> <<"d", "e", "l", "a", "t", "t", "r">>,
     pattern |-> "\\bdelattr\\s*\\("],
    [kind |-> "prefix", lit |-> <<"_", "_", "b", "u", "i", "l", "t", "i", "n", "s", "_", "_">>,
     pattern |-> "\\b__builtins__"],
    [kind |-> "space", lit |-> <<"l", "a", "m", "b", "d", "a">>,
     pattern |-> "\\blambda\\s"]
    >>

\* \b before position i of text, where text[i] is a word character.
BoundaryBefore(text, i) == i = 1 \/ ~IsWord(text[i - 1])

LitAt(text, i, lit) ==
    /\ i + Len(lit) - 1 <= Len(text)
    /\ \A k \in 1..Len(lit) : ToLower(text[i + k - 1]) = lit[k]

\* pattern.match at position i.
MatchAt(p, text, i) ==
    LET after == i + Len(p.lit) IN
    /\ BoundaryBefore(text, i)
    /\ IF p.kind = "dunder"
       THEN \E e \in (i + 4)..Len(text) :
               /\ text[i] = "_" /\ text[i + 1] = "_"
               /\ text[e - 1] = "_" /\ text[e] = "_"
               /\ \A k \in (i + 2)..(e - 2) : IsWord(text[k])
               /\ (e = Len(text) \/ ~IsWord(text[e + 1]))
       ELSE /\ LitAt(text, i, p.lit)
            /\ CASE p.kind = "call" ->
                      \E j \in after..Len(text) :
                          /\ text[j] = "("
                          /\ \A k \in after..(j - 1) : IsSpace(text[k])
                 [] p.kind = "space" ->
                      after <= Len(text) /\ IsSpace(text[after])
                 [] p.kind = "attr" ->
                      /\ after + 1 <= Len(text)
                      /\ text[after] = "."
                      /\ IsWord(text[after + 1])
                 [] OTHER -> TRUE

\* pattern.search(expression)
Search(p, text) == \E i \in 1..Len(text) : MatchAt(p, text, i)

\* str.strip()
Strip(text) ==
    IF \A i \in 1..Len(text) : IsSpace(text[i])
    THEN <<>>
    ELSE LET first == CHOOSE i \in 1..Len(text) :
                         /\ ~IsSpace(text[i])
                         /\ \A k \in 1..(i - 1) : IsSpace(text[k])
             last == CHOOSE i \in 1..Len(text) :
                         /\ ~IsSpace(text[i])
                         /\ \A k \in (i + 1)..Len(text) : IsSpace(text[k])
         IN SubSeq(text, first, last)

StartsWith(text, old) ==
    Len(old) <= Len(text) /\ SubSeq(text, 1, Len(old)) = old

RECURSIVE Replace(_, _, _)
\* str.replace(old, new): leftmost, non-overlapping occurrences.
Replace(text, old, new) ==
    IF text = <<>> THEN <<>>
    ELSE IF StartsWith(text, old)
    THEN new \o Replace(SubSeq(text, Len(old) + 1, Len(text)), old, new)
    ELSE <<Head(text)>> \o Replace(Tail(text), old, new)

RECURSIVE SubBang(_)
\* re.sub(r'!(?!=)', ' not ', expr)
SubBang(text) ==
    IF text = <<>> THEN <<>>
    ELSE IF Head(text) = "!" /\ ~(Len(text) >= 2 /\ text[2] = "=")
    THEN <<" ", "n", "o", "t", " ">> \o SubBang(Tail(text))
    ELSE <<Head(text)>> \o SubBang(Tail(text))

RECURSIVE CollapseSpace(_)
\* re.sub(r'\s+', ' ', expr)
CollapseSpace(text) ==
    IF text = <<>> THEN <<>>
    ELSE IF IsSpace(Head(text))
    THEN IF Len(text) >= 2 /\ IsSpace(text[2])
         THEN CollapseSpace(Tail(text))
         ELSE <<" ">> \o CollapseSpace(Tail(text))
    ELSE <<Head(text)>> \o CollapseSpace(Tail(text))

\* SafeExpressionParser._normalize_expression
NormalizeExpression(expression) ==
    LET e1 == Strip(expression)
        e2 == Replace(e1, <<"&", "&">>, <<" ", "a", "n", "d", " ">>)
        e3 == Replace(e2, <<"|", "|">>, <<" ", "o", "r", " ">>)
        e4 == SubBang(e3)
    IN Strip(CollapseSpace(e4))

(***************************************************************************)
(* ast.parse(expression, mode='eval'): Python's tokenizer and expression   *)
(* grammar, for texts made of names, keywords, white space and the         *)
(* punctuation ( ) . & | ! = < >.                                          *)
(***************************************************************************)
PythonKeywords ==
    {<<"F", "a", "l", "s", "e">>, <<"N", "o", "n", "e">>,
     <<"T", "r", "u", "e">>, <<"a", "n", "d">>, <<"a", "s">>,
     <<"a", "s", "s", "e", "r", "t">>, <<"a", "s", "y", "n", "c">>,
     <<"a", "w", "a", "i", "t">>, <<"b", "r", "e", "a", "k">>,
     <<"c", "l", "a", "s", "s">>, <<"c", "o", "n", "t", "i", "n", "u", "e">>,
     <<"d", "e", "f">>, <<"d", "e", "l">>, <<"e", "l", "i", "f">>,
     <<"e", "l", "s", "e">>, <<"e", "x", "c", "e", "p", "t">>,
     <<"f", "i", "n", "a", "l", "l", "y">>, <<"f", "o", "r">>,
     <<"f", "r", "o", "m">>, <<"g", "l", "o", "b", "a", "l">>, <<"i", "f">>,
     <<"i", "m", "p", "o", "r", "t">>, <<"i", "n">>, <<"i", "s">>,
     <<"l", "a", "m", "b", "d", "a">>,
     <<"n", "o", "n", "l", "o", "c", "a", "l">>, <<"n", "o", "t">>,
     <<"o", "r">>, <<"p", "a", "s", "s">>, <<"r", "a", "i", "s", "e">>,
     <<"r", "e", "t", "u", "r", "n">>, <<"t", "r", "y">>,
     <<"w", "h", "i", "l", "e">>, <<"w", "i", "t", "h">>,
     <<"y", "i", "e", "l", "d">>}

Token(kind, text) == [kind |-> kind, text |-> text]

\* A maximal run of word characters: a keyword or a name.
WordToken(word) ==
    IF word \in {<<"a", "n", "d">>, <<"o", "r">>, <<"n", "o", "t">>,
                 <<"i", "n">>, <<"i", "s">>}
    THEN Token(CASE word = <<"a", "n", "d">> -> "and"
                 [] word = <<"o", "r">> -> "or"
                 [] word = <<"n", "o", "t">> -> "not"
                 [] word = <<"i", "n">> -> "in"
                 [] OTHER -> "is", word)
    ELSE IF word \in {<<"T", "r", "u", "e">>, <<"F", "a", "l", "s", "e">>,
                      <<"N", "o", "n", "e">>}
    THEN Token("CONST", word)
    ELSE IF word \in PythonKeywords THEN Token("KEYWORD", word)
    ELSE Token("NAME", word)

At(text, i) == IF i <= Len(text) THEN text[i] ELSE "EOF"

WordEnd(text, i) ==
    CHOOSE j \in i..Len(text) :
        /\ \A k \in i..j : IsWord(text[k])
        /\ (j = Len(text) \/ ~IsWord(text[j + 1]))

RECURSIVE Tokenize(_, _)
Tokenize(text, i) ==
    IF i > Len(text) THEN <<>>
    ELSE LET c == text[i]
             n == At(text, i + 1)
             one(kind) == <<Token(kind, <<c>>)>> \o Tokenize(text, i + 1)
             two(kind) == <<Token(kind, <<c, n>>)>> \o Tokenize(text, i + 2)
             three(kind) == <<Token(kind, <<c, n, n>>)>> \o Tokenize(text, i + 3)
         IN CASE IsSpace(c) -> Tokenize(text, i + 1)
              [] IsWord(c) ->
                   <<WordToken(SubSeq(text, i, WordEnd(text, i)))>>
                       \o Tokenize(text, WordEnd(text, i) + 1)
              [] c = "." ->
                   IF n = "." /\ At(text, i + 2) = "." THEN three("...")
                   ELSE one(".")
              [] c = "=" -> IF n = "=" THEN two("CMP") ELSE one("=")
              [] c = "!" -> IF n = "=" THEN two("CMP") ELSE one("ERR")
              [] c \in {">", "<"} ->
                   IF n = "=" THEN two("CMP")
                   ELSE IF n = c
                   THEN IF At(text, i + 2) = "=" THEN three("ERR")
                        ELSE two("SHIFT")
                   ELSE IF c = "<" /\ n = ">" THEN two("ERR")
                   ELSE one("CMP")
              [] c \in {"&", "|"} -> IF n = "=" THEN two("ERR") ELSE one(c)
              [] c \in {"(", ")"} -> one(c)
              [] OTHER -> one("ERR")

Kind(toks, i) == IF i >= 1 /\ i <= Len(toks) THEN toks[i].kind ELSE "EOF"

RECURSIVE Parse(_, _, _)
\* The recognizer of one rule of the expression grammar at position i of the
\* tokens t: the position after the phrase, or 0 when there is none.  The
\* rules, from the loosest: or, and, not, cmp, bitor, bitand, shift,
\* primary (an atom and its trailers), arg (one call argument), atom.
Parse(rule, t, i) ==
    LET \* a left-associative chain of the next rule separated by one token
        chain(next, sep) ==
            LET j == Parse(next, t, i) IN
            IF j = 0 THEN 0
            ELSE IF Kind(t, j) = sep THEN Parse(rule, t, j + 1) ELSE j
    IN CASE rule = "or" -> chain("and", "or")
         [] rule = "and" -> chain("not", "and")
         [] rule = "not" ->
              IF Kind(t, i) = "not" THEN Parse("not", t, i + 1)
              ELSE Parse("cmp", t, i)
         [] rule = "cmp" ->
              LET j == Parse("bitor", t, i) IN
              IF j = 0 THEN 0
              ELSE CASE Kind(t, j) \in {"CMP", "in"} -> Parse("cmp", t, j + 1)
                     [] Kind(t, j) = "not" /\ Kind(t, j + 1) = "in" ->
                          Parse("cmp", t, j + 2)
                     [] Kind(t, j) = "is" /\ Kind(t, j + 1) = "not" ->
                          Parse("cmp", t, j + 2)
                     [] Kind(t, j) = "is" /\ Kind(t, j + 1) # "not" ->
                          Parse("cmp", t, j + 1)
                     [] OTHER -> j
         [] rule = "bitor" -> chain("bitand", "|")
         [] rule = "bitand" -> chain("shift", "&")
         [] rule = "shift" -> chain("primary", "SHIFT")
         [] rule = "primary" ->
              LET j == Parse("atom", t, i) IN
              IF j = 0 THEN 0 ELSE Parse("trailers", t, j)
         [] rule = "trailers" ->
              CASE Kind(t, i) = "." ->
                     IF Kind(t, i + 1) = "NAME"
                     THEN Parse("trailers", t, i + 2) ELSE 0
                [] Kind(t, i) = "(" ->
                     IF Kind(t, i + 1) = ")" THEN Parse("trailers", t, i + 2)
                     ELSE LET a == Parse("arg", t, i + 1) IN
                          IF a # 0 /\ Kind(t, a) = ")"
                          THEN Parse("trailers", t, a + 1)
                          ELSE 0
                [] OTHER -> i
         [] rule = "arg" ->
              IF Kind(t, i) = "NAME" /\ Kind(t, i + 1) = "="
              THEN Parse("or", t, i + 2)
              ELSE Parse("or", t, i)
         [] rule = "atom" ->
              CASE Kind(t, i) \in {"NAME", "CONST", "..."} -> i + 1
                [] Kind(t, i) = "(" ->
                     IF Kind(t, i + 1) = ")" THEN i + 2
                     ELSE LET j == Parse("or", t, i + 1) IN
                          IF j # 0 /\ Kind(t, j) = ")" THEN j + 1 ELSE 0
                [] OTHER -> 0

\* ast.parse(text, mode='eval') raises no SyntaxError.  Leading white space
\* is an IndentationError, a SyntaxError.
AstParses(text) ==
    /\ text # <<>>
    /\ ~IsSpace(text[1])
    /\ LET t == Tokenize(text, 1) IN Parse("or", t, 1) = Len(t) + 1

\* SafeExpressionParser.validate
validate(expression) ==
    IF expression = <<>> \/ Strip(expression) = <<>>
    THEN [ok |-> FALSE, error |-> "Expression cannot be empty"]
    ELSE IF \E n \in 1..Len(DANGEROUS_PATTERNS) :
                Search(DANGEROUS_PATTERNS[n], expression)
    THEN LET n == CHOOSE m \in 1..Len(DANGEROUS_PATTERNS) :
                     /\ Search(DANGEROUS_PATTERNS[m], expression)
                     /\ \A k \in 1..(m - 1) :
                            ~Search(DANGEROUS_PATTERNS[k], expression)
         IN [ok |-> FALSE,
             error |-> "Expression contains forbidden pattern: "
                           \o DANGEROUS_PATTERNS[n].pattern]
    ELSE IF ~AstParses(expression)
    THEN [ok |-> FALSE, error |-> "Invalid expression syntax"]
    ELSE [ok |-> TRUE, error |-> "None"]

\* SafeExpressionParser.ALLOWED_FUNCTIONS (the keys of local_dict).
ALLOWED_FUNCTIONS ==
    {<<"a", "b", "s">>, <<"r", "o", "u", "n", "d">>,
     <<"f", "l", "o", "o", "r">>, <<"c", "e", "i", "l">>,
     <<"s", "q", "r", "t">>, <<"l", "o", "g">>, <<"l", "o", "g", "1", "0">>,
     <<"e", "x", "p">>, <<"s", "i", "n">>, <<"c", "o", "s">>,
     <<"t", "a", "n">>, <<"m", "i", "n">>, <<"m", "a", "x">>,
     <<"l", "o", "w", "e", "r">>, <<"u", "p", "p", "e", "r">>,
     <<"l", "e", "n">>, <<"s", "t", "r", "i", "p">>,
     <<"c", "o", "n", "t", "a", "i", "n", "s">>}

(***************************************************************************)
(* Tables.  A DataFrame value is its column names and the provenance of    *)
(* its rows.  A column name is one character, so that the name x in an     *)
(* expression is the column "x".                                           *)
(***************************************************************************)
Term(op, cfg, args) == [op |-> op, cfg |-> cfg, args |-> args]

Table(columns, rows) == [columns |-> columns, rows |-> rows]

\* A table whose rows are given: each row lists the values of the columns,
\* in the order of the columns.
Frame(columns, rows) == Table(columns, Term("literal", rows, <<>>))

RECURSIVE JoinStr(_, _)
\* sep.join(names)
JoinStr(names, sep) ==
    IF names = <<>> THEN ""
    ELSE IF Len(names) = 1 THEN names[1]
    ELSE names[1] \o sep \o JoinStr(Tail(names), sep)

\* The data of a NodeResult that has none.
NoneTable == Table(<<>>, Term("None", <<>>, <<>>))

Contains(seq, x) == \E i \in 1..Len(seq) : seq[i] = x

\* [c for c in wanted if c not in df.columns]
Missing(wanted, columns) == SelectSeq(wanted, LAMBDA c : ~Contains(columns, c))

\* The names an expression reads: the NAME tokens that are neither an
\* attribute name nor the keyword of a keyword argument.
FreeNames(toks) ==
    {toks[i].text : i \in {k \in 1..Len(toks) :
        /\ toks[k].kind = "NAME"
        /\ Kind(toks, k - 1) # "."
        /\ Kind(toks, k + 1) # "="}}

\* df.query(expr, local_dict=ALLOWED_FUNCTIONS) and df.eval(expr, ...) are
\* pandas: the evaluation succeeds when the text parses and every name it
\* reads is a column of df or a key of local_dict.
PandasEvaluates(df, expr) ==
    /\ AstParses(expr)
    /\ \A name \in FreeNames(Tokenize(expr, 1)) :
           \/ name \in ALLOWED_FUNCTIONS
           \/ Len(name) = 1 /\ Contains(df.columns, name[1])

\* evaluate_filter without the call of validate.
evaluate_filter_unvalidated(df, expression) ==
    LET expr == NormalizeExpression(expression)
    IN IF PandasEvaluates(df, expr)
       THEN [raised |-> FALSE, error |-> "None", calls |-> <<"query">>,
             table |-> Table(df.columns, Term("query", expr, <<df.rows>>))]
       ELSE [raised |-> TRUE, error |-> "Failed to evaluate filter",
             calls |-> <<"query", "eval">>,
             table |-> NoneTable]

\* SafeExpressionParser.evaluate_filter.  calls lists the pandas calls made
\* on df.
evaluate_filter(df, expression) ==
    LET v == validate(expression)
        expr == NormalizeExpression(expression)
    IN IF ~v.ok
       THEN [raised |-> TRUE, error |-> v.error, calls |-> <<>>,
             table |-> NoneTable]
       ELSE IF PandasEvaluates(df, expr)
       THEN [raised |-> FALSE, error |-> "None", calls |-> <<"query">>,
             table |-> Table(df.columns, Term("query", expr, <<df.rows>>))]
       ELSE [raised |-> TRUE, error |-> "Failed to evaluate filter",
             calls |-> <<"query", "eval">>,
             table |-> NoneTable]

\* evaluate_formula with result = df in place of result = df.copy(): the
\* column is assigned to the table handed in.
evaluate_formula_in_place(df, expression, new_column) ==
    LET v == validate(expression)
        expr == NormalizeExpression(expression)
        table == Table(IF Contains(df.columns, new_column)
                       THEN df.columns
                       ELSE Append(df.columns, new_column),
                       Term("assign", <<new_column>> \o expr, <<df.rows>>))
    IN IF ~v.ok
       THEN [raised |-> TRUE, error |-> v.error, calls |-> <<>>,
             table |-> NoneTable, df |-> df]
       ELSE IF PandasEvaluates(df, expr)
       THEN [raised |-> FALSE, error |-> "None", calls |-> <<"eval">>,
             table |-> table, df |-> table]
       ELSE [raised |-> TRUE, error |-> "Failed to evaluate formula",
             calls |-> <<"eval">>,
             table |-> NoneTable, df |-> df]

\* SafeExpressionParser.evaluate_formula.  df is the table handed in as it
\* is after the call.
evaluate_formula(df, expression, new_column) ==
    LET v == validate(expression)
        expr == NormalizeExpression(expression)
    IN IF ~v.ok
       THEN [raised |-> TRUE, error |-> v.error, calls |-> <<>>,
             table |-> NoneTable, df |-> df]
       ELSE IF PandasEvaluates(df, expr)
       THEN [raised |-> FALSE, error |-> "None", calls |-> <<"copy", "eval">>,
             table |-> Table(IF Contains(df.columns, new_column)
                             THEN df.columns
                             ELSE Append(df.columns, new_column),
                             Term("assign", <<new_column>> \o expr,
                                  <<df.rows>>)),
             df |-> df]
       ELSE [raised |-> TRUE, error |-> "Failed to evaluate formula",
             calls |-> <<"copy", "eval">>,
             table |-> NoneTable, df |-> df]

(***************************************************************************)
(* The file system: files maps <<directory, name>> to the table stored     *)
(* there, dirs is the set of directories that exist.                       *)
(***************************************************************************)
Path(dir, name) == <<dir, name>>

\* A stored CSV file holds the rows that were written to that place.
Uploaded(dir, name) == Table(<<"k", "x">>, Term("csv", <<dir, name>>, <<>>))

\* Path.mkdir(parents=True), which raises FileExistsError when dir exists.
MkdirNew(dirs, dir) == [ok |-> dir \notin dirs, dirs |-> dirs \cup {dir}]

\* Path.mkdir(parents=True, exist_ok=True)
Mkdir(dirs, dir) == [ok |-> TRUE, dirs |-> dirs \cup {dir}]

(***************************************************************************)
(* The node kinds (engine/nodes).  env holds what a node reads from its    *)
(* class and from the file system: upload_dir is ReadCSVNode.upload_dir,   *)
(* output_dir is OutputNode.output_dir.                                    *)
(***************************************************************************)
NODE_REGISTRY ==
    {"ReadCSV", "Filter", "Select", "Join", "Aggregate", "Sort", "Formula",
     "Output"}

\* ReadCSVNode.execute
ReadCSVExecute(config, inputs, env) ==
    IF IsNone(config) THEN Raises(AttributeErrorGet)
    ELSE LET upload_id == ConfigGet(config, "upload_id", "") IN
    IF upload_id = "" THEN Fails("No upload_id specified")
    ELSE IF env.upload_dir = "None"
    THEN Fails("Upload directory not configured")
    ELSE IF Path(env.upload_dir, upload_id) \notin DOMAIN env.files
    THEN Fails("Uploaded file not found: " \o upload_id)
    ELSE Returns(TRUE, FreshData(env.files[Path(env.upload_dir, upload_id)]),
                 "None",
                 [source |-> Path(env.upload_dir, upload_id),
                  upload_id |-> upload_id])

\* OutputNode.execute with the check of the format after df.to_csv: the file
\* is on disk when the format is refused.
OutputExecuteFormatLate(config, inputs, env, file_id) ==
    IF inputs = <<>> THEN Fails("No input data to output")
    ELSE IF env.output_dir = "None"
    THEN Fails("Output directory not configured")
    ELSE IF IsNone(config) THEN Raises(AttributeErrorGet)
    ELSE LET output_format == ConfigGet(config, "format", "csv")
             made == Mkdir(env.dirs, env.output_dir)
             done == [path |-> Path(env.output_dir, file_id),
                      table |-> inputs[1]]
         IN IF output_format # "csv"
            THEN [Fails("Unsupported output format: " \o output_format)
                  EXCEPT !.written = {done}, !.made = {env.output_dir}]
            ELSE [Returns(TRUE, InputData(1), "None",
                          [file_id |-> file_id,
                           file_path |-> Path(env.output_dir, file_id),
                           format |-> output_format])
                  EXCEPT !.written = {done}, !.made = {env.output_dir}]

\* OutputNode.execute; file_id is str(uuid.uuid4()).
OutputExecute(config, inputs, env, file_id) ==
    IF inputs = <<>> THEN Fails("No input data to output")
    ELSE IF env.output_dir = "None"
    THEN Fails("Output directory not configured")
    ELSE IF IsNone(config) THEN Raises(AttributeErrorGet)
    ELSE LET output_format == ConfigGet(config, "format", "csv") IN
    IF output_format # "csv"
    THEN Fails("Unsupported output format: " \o output_format)
    ELSE LET made == Mkdir(env.dirs, env.output_dir) IN
    IF ~made.ok THEN Fails("Failed to write output")
    ELSE [Returns(TRUE, InputData(1), "None",
                  [file_id |-> file_id,
                   file_path |-> Path(env.output_dir, file_id),
                   format |-> output_format])
          EXCEPT !.written = {[path |-> Path(env.output_dir, file_id),
                               table |-> inputs[1]]},
                 !.made = {env.output_dir}]

\* The call of uuid.uuid4() in OutputNode.execute is reached.
DrawsUuid(node, inputs, env) ==
    /\ node.node_type = "Output"
    /\ inputs # <<>>
    /\ env.output_dir # "None"
    /\ ~IsNone(node.config)
    /\ ConfigGet(node.config, "format", "csv") = "csv"

\* A result of a node that called the method of self.parser.
Parsed(result, method) == [result EXCEPT !.parsed = <<method>>]

\* FilterNode.execute without the return for an empty expression: whatever
\* the expression is, it goes to evaluate_filter.
FilterExecuteAlways(config, inputs) ==
    IF inputs = <<>> THEN Fails("No input data to filter")
    ELSE IF IsNone(config) THEN Raises(AttributeErrorGet)
    ELSE LET df == inputs[1]
             expression == ConfigGet(config, "expression", <<>>)
             r == evaluate_filter(df, expression)
         IN IF r.raised THEN Parsed(Fails(r.error), "evaluate_filter")
            ELSE Parsed(Returns(TRUE, FreshData(r.table), "None",
                                [expression |-> expression,
                                 filtered_rows |->
                                     <<df.rows, r.table.rows>>]),
                        "evaluate_filter")

\* FilterNode.execute
FilterExecute(config, inputs) ==
    IF inputs = <<>> THEN Fails("No input data to filter")
    ELSE IF IsNone(config) THEN Raises(AttributeErrorGet)
    ELSE LET df == inputs[1]
             expression == ConfigGet(config, "expression", <<>>)
         IN IF expression = <<>>
            THEN Returns(TRUE, InputData(1), "None", NoMetadata)
            ELSE LET r == evaluate_filter(df, expression) IN
                 IF r.raised THEN Parsed(Fails(r.error), "evaluate_filter")
                 ELSE Parsed(Returns(TRUE, FreshData(r.table), "None",
                                     [expression |-> expression,
                                      filtered_rows |->
                                          <<df.rows, r.table.rows>>]),
                             "evaluate_filter")

\* SelectNode.execute without the check that the columns exist.
SelectExecuteUnchecked(config, inputs) ==
    IF inputs = <<>> THEN Fails("No input data")
    ELSE IF IsNone(config) THEN Raises(AttributeErrorGet)
    ELSE LET df == inputs[1]
             columns == ConfigGet(config, "columns", <<>>)
         IN IF columns = <<>>
            THEN Returns(TRUE, InputData(1), "None", NoMetadata)
            ELSE Returns(TRUE,
                         FreshData(Table(columns,
                                         Term("select", columns, <<df.rows>>))),
                         "None", [selected_columns |-> columns])

\* SelectNode.execute
SelectExecute(config, inputs) ==
    IF inputs = <<>> THEN Fails("No input data")
    ELSE IF IsNone(config) THEN Raises(AttributeErrorGet)
    ELSE LET df == inputs[1]
             columns == ConfigGet(config, "columns", <<>>)
         IN IF columns = <<>>
            THEN Returns(TRUE, InputData(1), "None", NoMetadata)
            ELSE IF Missing(columns, df.columns) # <<>>
            THEN Fails("Columns not found: "
                           \o JoinStr(Missing(columns, df.columns), ", "))
            ELSE Returns(TRUE,
                         FreshData(Table(columns,
                                         Term("select", columns, <<df.rows>>))),
                         "None", [selected_columns |-> columns])

\* SortNode.execute
SortExecute(config, inputs) ==
    IF inputs = <<>> THEN Fails("No input data")
    ELSE IF IsNone(config) THEN Raises(AttributeErrorGet)
    ELSE LET df == inputs[1]
             columns == ConfigGet(config, "columns", <<>>)
         IN IF columns = <<>>
            THEN Returns(TRUE, InputData(1), "None", NoMetadata)
            ELSE IF Missing(columns, df.columns) # <<>>
            THEN Fails("Sort columns not found")
            ELSE Returns(TRUE,
                         FreshData(Table(df.columns,
                                         Term("sort_values", columns,
                                              <<df.rows>>))),
                         "None", [sort_columns |-> columns])

\* FormulaNode.execute
FormulaExecute(config, inputs) ==
    IF inputs = <<>> THEN Fails("No input data")
    ELSE IF IsNone(config) THEN Raises(AttributeErrorGet)
    ELSE LET df == inputs[1]
             new_col == ConfigGet(config, "newCol",
                                  ConfigGet(config, "new_col", ""))
             expression == ConfigGet(config, "expression", <<>>)
         IN IF new_col = "" THEN Fails("newCol is required")
            ELSE IF expression = <<>> THEN Fails("expression is required")
            ELSE LET r == evaluate_formula(df, expression, new_col) IN
                 IF r.raised THEN Parsed(Fails(r.error), "evaluate_formula")
                 ELSE Parsed(Returns(TRUE, FreshData(r.table), "None",
                                     [new_column |-> new_col,
                                      expression |-> expression]),
                             "evaluate_formula")

\* The columns of pd.merge(left, right, left_on=, right_on=,
\* suffixes=('_left', '_right')): a name on both sides gets the suffixes,
\* unless it is the key of both sides, which is kept once.
MergeColumns(left, right, left_key, right_key) ==
    LET shared(c) == Contains(left, c) /\ Contains(right, c)
        both(c) == c = left_key /\ c = right_key
        l == [i \in 1..Len(left) |->
                 IF shared(left[i]) /\ ~both(left[i])
                 THEN left[i] \o "_left" ELSE left[i]]
        r == [i \in 1..Len(right) |->
                 IF shared(right[i]) /\ ~both(right[i])
                 THEN right[i] \o "_right" ELSE right[i]]
    IN l \o SelectSeq(r, LAMBDA c : ~both(c))

\* JoinNode.execute with pd.merge called without how=how: an inner join.
JoinExecuteInner(config, inputs) ==
    IF Len(inputs) < 2
    THEN Fails("Join requires 2 inputs, got " \o NumStr(Len(inputs)))
    ELSE IF IsNone(config) THEN Raises(AttributeErrorGet)
    ELSE LET left_df == inputs[1]
             right_df == inputs[2]
             left_key == ConfigGet(config, "leftKey",
                                   ConfigGet(config, "left_key", ""))
             right_key == ConfigGet(config, "rightKey",
                                    ConfigGet(config, "right_key", ""))
             how == ConfigGet(config, "how", "inner")
         IN IF left_key = "" THEN Fails("leftKey is required")
            ELSE IF right_key = "" THEN Fails("rightKey is required")
            ELSE IF ~Contains(left_df.columns, left_key)
            THEN Fails("Left key '" \o left_key
                           \o "' not found in left dataset")
            ELSE IF ~Contains(right_df.columns, right_key)
            THEN Fails("Right key '" \o right_key
                           \o "' not found in right dataset")
            ELSE IF how \notin {"inner", "left", "right", "outer"}
            THEN Fails("Invalid join type: " \o how)
            ELSE Returns(TRUE,
                         FreshData(Table(
                             MergeColumns(left_df.columns, right_df.columns,
                                          left_key, right_key),
                             Term("merge", <<left_key, right_key, "inner">>,
                                  <<left_df.rows, right_df.rows>>))),
                         "None",
                         [left_key |-> left_key, right_key |-> right_key,
                          join_type |-> how])

\* JoinNode.execute
JoinExecute(config, inputs) ==
    IF Len(inputs) < 2
    THEN Fails("Join requires 2 inputs, got " \o NumStr(Len(inputs)))
    ELSE IF IsNone(config) THEN Raises(AttributeErrorGet)
    ELSE LET left_df == inputs[1]
             right_df == inputs[2]
             left_key == ConfigGet(config, "leftKey",
                                   ConfigGet(config, "left_key", ""))
             right_key == ConfigGet(config, "rightKey",
                                    ConfigGet(config, "right_key", ""))
             how == ConfigGet(config, "how", "inner")
         IN IF left_key = "" THEN Fails("leftKey is required")
            ELSE IF right_key = "" THEN Fails("rightKey is required")
            ELSE IF ~Contains(left_df.columns, left_key)
            THEN Fails("Left key '" \o left_key
                           \o "' not found in left dataset")
            ELSE IF ~Contains(right_df.columns, right_key)
            THEN Fails("Right key '" \o right_key
                           \o "' not found in right dataset")
            ELSE IF how \notin {"inner", "left", "right", "outer"}
            THEN Fails("Invalid join type: " \o how)
            ELSE Returns(TRUE,
                         FreshData(Table(
                             MergeColumns(left_df.columns, right_df.columns,
                                          left_key, right_key),
                             Term("merge", <<left_key, right_key, how>>,
                                  <<left_df.rows, right_df.rows>>))),
                         "None",
                         [left_key |-> left_key, right_key |-> right_key,
                          join_type |-> how])

\* AggregateNode.VALID_OPS
VALID_OPS ==
    {"sum", "mean", "count", "min", "max", "first", "last", "std", "var"}

RECURSIVE AggLoop(_, _, _, _)
\* AggregateNode.execute, the loop over aggregations: agg_dict[alias] =
\* (col, op), so that a later entry with the alias of an earlier one takes
\* its place.
AggLoop(aggregations, i, df, agg_dict) ==
    IF i > Len(aggregations) THEN [error |-> "None", agg_dict |-> agg_dict]
    ELSE LET agg == aggregations[i]
             col == ConfigGet(agg, "col", "")
             op == ConfigGet(agg, "op", "")
             alias == ConfigGet(agg, "as",
                                ConfigGet(agg, "alias", col \o "_" \o op))
         IN IF col = ""
            THEN [error |-> "Aggregation missing 'col'", agg_dict |-> agg_dict]
            ELSE IF op = ""
            THEN [error |-> "Aggregation missing 'op'", agg_dict |-> agg_dict]
            ELSE IF op \notin VALID_OPS
            THEN [error |-> "Invalid aggregation op: " \o op,
                  agg_dict |-> agg_dict]
            ELSE IF ~Contains(df.columns, col)
            THEN [error |-> "Aggregation column not found: " \o col,
                  agg_dict |-> agg_dict]
            ELSE AggLoop(aggregations, i + 1, df,
                         DictSet(agg_dict, alias, <<col, op>>))

\* AggregateNode.execute.  df.groupby(group_by, as_index=False).agg(**named)
\* is pandas: its columns are the group columns and then one column per
\* name, and it raises when a name is the name of a group column.
AggregateExecute(config, inputs) ==
    IF inputs = <<>> THEN Fails("No input data")
    ELSE IF IsNone(config) THEN Raises(AttributeErrorGet)
    ELSE LET df == inputs[1]
             group_by == ConfigGet(config, "groupBy",
                                   ConfigGet(config, "group_by", <<>>))
             aggregations == ConfigGet(config, "aggregations", <<>>)
             loop == AggLoop(aggregations, 1, df, <<>>)
         IN IF group_by = <<>> THEN Fails("groupBy columns are required")
            ELSE IF aggregations = <<>>
            THEN Fails("At least one aggregation is required")
            ELSE IF Missing(group_by, df.columns) # <<>>
            THEN Fails("Group columns not found: "
                           \o JoinStr(Missing(group_by, df.columns), ", "))
            ELSE IF loop.error # "None" THEN Fails(loop.error)
            ELSE IF \E i \in 1..Len(loop.agg_dict) :
                        Contains(group_by, loop.agg_dict[i][1])
            THEN Fails("Aggregation failed")
            ELSE Returns(TRUE,
                         FreshData(Table(
                             group_by \o DictKeys(loop.agg_dict),
                             Term("groupby_agg", <<group_by, loop.agg_dict>>,
                                  <<df.rows>>))),
                         "None",
                         [group_by |-> group_by,
                          aggregations |-> aggregations])

\* node.execute(inputs) of the node class NODE_REGISTRY[node_type].
NodeExecute(node, inputs, env, file_id) ==
    CASE node.node_type = "ReadCSV" -> ReadCSVExecute(node.config, inputs, env)
      [] node.node_type = "Output" ->
           OutputExecute(node.config, inputs, env, file_id)
      [] node.node_type = "Filter" -> FilterExecute(node.config, inputs)
      [] node.node_type = "Select" -> SelectExecute(node.config, inputs)
      [] node.node_type = "Sort" -> SortExecute(node.config, inputs)
      [] node.node_type = "Formula" -> FormulaExecute(node.config, inputs)
      [] node.node_type = "Join" -> JoinExecute(node.config, inputs)
      [] node.node_type = "Aggregate" ->
           AggregateExecute(node.config, inputs)

(***************************************************************************)
(* WorkflowExecutor (engine/executor.py).                                  *)
(***************************************************************************)
RECURSIVE BuildNodesSkipping(_, _, _)
\* The loop over nodes_config that passes over a node whose type is not
\* registered.
BuildNodesSkipping(nodes_config, i, nodes) ==
    IF i > Len(nodes_config)
    THEN [raised |-> "None", message |-> "None", nodes |-> nodes]
    ELSE LET node_def == nodes_config[i] IN
         IF node_def.type \notin NODE_REGISTRY
         THEN BuildNodesSkipping(nodes_config, i + 1, nodes)
         ELSE BuildNodesSkipping(nodes_config, i + 1,
                                 DictSet(nodes, node_def.id,
                                         [node_id |-> node_def.id,
                                          node_type |-> node_def.type,
                                          config |-> node_def.config]))

RECURSIVE BuildNodes(_, _, _)
\* _build_graph, the loop over nodes_config.
BuildNodes(nodes_config, i, nodes) ==
    IF i > Len(nodes_config)
    THEN [raised |-> "None", message |-> "None", nodes |-> nodes]
    ELSE LET node_def == nodes_config[i] IN
         IF node_def.type \notin NODE_REGISTRY
         THEN [raised |-> "WorkflowError",
               message |-> "Unknown node type: " \o node_def.type,
               nodes |-> nodes]
         ELSE BuildNodes(nodes_config, i + 1,
                         DictSet(nodes, node_def.id,
                                 [node_id |-> node_def.id,
                                  node_type |-> node_def.type,
                                  config |-> node_def.config]))

RECURSIVE BuildEdgesSkipping(_, _, _, _, _)
\* The loop over edges_config that passes over an edge one of whose ends is
\* not a node.
BuildEdgesSkipping(edges_config, j, nodes, adjacency, reverse_adj) ==
    IF j > Len(edges_config)
    THEN [raised |-> "None", message |-> "None", nodes |-> nodes,
          adjacency |-> adjacency, reverse_adj |-> reverse_adj]
    ELSE LET edge == edges_config[j]
             from_node == ConfigGet(edge, "fromNodeId",
                                    ConfigGet(edge, "from_node_id", "None"))
             to_node == ConfigGet(edge, "toNodeId",
                                  ConfigGet(edge, "to_node_id", "None"))
             from_port == ConfigGet(edge, "fromPort",
                                    ConfigGet(edge, "from_port", "out"))
             to_port == ConfigGet(edge, "toPort",
                                  ConfigGet(edge, "to_port", "in"))
         IN IF ~DictHas(nodes, from_node) \/ ~DictHas(nodes, to_node)
            THEN BuildEdgesSkipping(edges_config, j + 1, nodes, adjacency,
                                    reverse_adj)
            ELSE BuildEdgesSkipping(edges_config, j + 1, nodes,
                            DictAppend(adjacency, from_node, to_node),
                            DictAppend(reverse_adj, to_node,
                                       <<from_node, from_port, to_port>>))

RECURSIVE BuildEdges(_, _, _, _, _)
\* _build_graph, the loop over edges_config.
BuildEdges(edges_config, j, nodes, adjacency, reverse_adj) ==
    IF j > Len(edges_config)
    THEN [raised |-> "None", message |-> "None", nodes |-> nodes,
          adjacency |-> adjacency, reverse_adj |-> reverse_adj]
    ELSE LET edge == edges_config[j]
             from_node == ConfigGet(edge, "fromNodeId",
                                    ConfigGet(edge, "from_node_id", "None"))
             to_node == ConfigGet(edge, "toNodeId",
                                  ConfigGet(edge, "to_node_id", "None"))
             from_port == ConfigGet(edge, "fromPort",
                                    ConfigGet(edge, "from_port", "out"))
             to_port == ConfigGet(edge, "toPort",
                                  ConfigGet(edge, "to_port", "in"))
         IN IF ~DictHas(nodes, from_node)
            THEN [raised |-> "NodeNotFoundError",
                  message |-> "Edge references unknown node: " \o from_node,
                  nodes |-> nodes, adjacency |-> adjacency,
                  reverse_adj |-> reverse_adj]
            ELSE IF ~DictHas(nodes, to_node)
            THEN [raised |-> "NodeNotFoundError",
                  message |-> "Edge references unknown node: " \o to_node,
                  nodes |-> nodes, adjacency |-> adjacency,
                  reverse_adj |-> reverse_adj]
            ELSE BuildEdges(edges_config, j + 1, nodes,
                            DictAppend(adjacency, from_node, to_node),
                            DictAppend(reverse_adj, to_node,
                                       <<from_node, from_port, to_port>>))

\* WorkflowExecutor._build_graph
BuildGraph(nodes_config, edges_config) ==
    LET b == BuildNodes(nodes_config, 1, <<>>) IN
    IF b.raised # "None"
    THEN [raised |-> b.raised, message |-> b.message, nodes |-> b.nodes,
          adjacency |-> <<>>, reverse_adj |-> <<>>]
    ELSE BuildEdges(edges_config, 1, b.nodes, <<>>, <<>>)

RECURSIVE Insert(_, _)
\* x put into the sorted list s, after the elements that are not greater.
Insert(s, x) ==
    IF s = <<>> THEN <<x>>
    ELSE IF StrLt(x, Head(s)) THEN <<x>> \o s
    ELSE <<Head(s)>> \o Insert(Tail(s), x)

RECURSIVE Sort(_)
\* list.sort() of a list of strings
Sort(s) == IF s = <<>> THEN <<>> ELSE Insert(Sort(SubSeq(s, 1, Len(s) - 1)), s[Len(s)])

RECURSIVE CountTargetsOnce(_, _, _)
\* The count with a target counted once per source, however many edges
\* lead from the source to it.
CountTargetsOnce(in_degree, adjacency, s) ==
    IF s > Len(adjacency) THEN in_degree
    ELSE LET targets == adjacency[s][2]
             counted == [i \in 1..Len(in_degree) |->
                 <<in_degree[i][1],
                   in_degree[i][2]
                     + (IF Contains(targets, in_degree[i][1]) THEN 1 ELSE 0)>>]
         IN CountTargetsOnce(counted, adjacency, s + 1)

RECURSIVE CountTargets(_, _, _)
\* _topological_sort: in_degree[target] += 1 for every target of every source.
CountTargets(in_degree, adjacency, s) ==
    IF s > Len(adjacency) THEN in_degree
    ELSE LET targets == adjacency[s][2]
             counted == [i \in 1..Len(in_degree) |->
                 <<in_degree[i][1],
                   in_degree[i][2]
                     + Cardinality({k \in 1..Len(targets) :
                                       targets[k] = in_degree[i][1]})>>]
         IN CountTargets(counted, adjacency, s + 1)

RECURSIVE Release(_, _, _, _)
\* _topological_sort: the loop over the downstream nodes of the node popped.
Release(queue, in_degree, targets, k) ==
    IF k > Len(targets) THEN [queue |-> queue, in_degree |-> in_degree]
    ELSE LET downstream == targets[k]
             degree == DictGet(in_degree, downstream) - 1
         IN Release(IF degree = 0 THEN Append(queue, downstream) ELSE queue,
                    DictSet(in_degree, downstream, degree), targets, k + 1)

RECURSIVE KahnLoopUnsorted(_, _, _, _)
\* The loop without queue.sort(): the queue is served first in, first out.
KahnLoopUnsorted(queue, in_degree, result, adjacency) ==
    IF queue = <<>> THEN result
    ELSE LET node_id == Head(queue)
             r == Release(Tail(queue), in_degree,
                          DictGetOr(adjacency, node_id, <<>>), 1)
         IN KahnLoopUnsorted(r.queue, r.in_degree, Append(result, node_id),
                             adjacency)

RECURSIVE KahnLoop(_, _, _, _)
\* _topological_sort: while queue.
KahnLoop(queue, in_degree, result, adjacency) ==
    IF queue = <<>> THEN result
    ELSE LET sorted == Sort(queue)
             node_id == Head(sorted)
             r == Release(Tail(sorted), in_degree,
                          DictGetOr(adjacency, node_id, <<>>), 1)
         IN KahnLoop(r.queue, r.in_degree, Append(result, node_id), adjacency)

\* The sort without the comparison of len(result) with len(nodes).
TopologicalSortUnchecked(nodes, adjacency) ==
    LET zero == [i \in 1..Len(nodes) |-> <<nodes[i][1], 0>>]
        in_degree == CountTargets(zero, adjacency, 1)
        queue == SelectSeq(DictKeys(in_degree),
                           LAMBDA id : DictGet(in_degree, id) = 0)
    IN [raised |-> "None", message |-> "None",
        result |-> KahnLoop(queue, in_degree, <<>>, adjacency)]

\* WorkflowExecutor._topological_sort
TopologicalSort(nodes, adjacency) ==
    LET zero == [i \in 1..Len(nodes) |-> <<nodes[i][1], 0>>]
        in_degree == CountTargets(zero, adjacency, 1)
        queue == SelectSeq(DictKeys(in_degree),
                           LAMBDA id : DictGet(in_degree, id) = 0)
        result == KahnLoop(queue, in_degree, <<>>, adjacency)
    IN IF Len(result) # Len(nodes)
       THEN [raised |-> "CycleDetectedError",
             message |-> "Workflow contains a cycle", result |-> <<>>]
       ELSE [raised |-> "None", message |-> "None", result |-> result]

\* The upstream list as _build_graph appended it, in the order of the edges.
Unsorted(s) == s

RECURSIVE InsertByPort(_, _)
InsertByPort(s, x) ==
    IF s = <<>> THEN <<x>>
    ELSE IF StrLt(x[3], Head(s)[3]) THEN <<x>> \o s
    ELSE <<Head(s)>> \o InsertByPort(Tail(s), x)

RECURSIVE SortedByPort(_)
\* sorted(upstream_nodes, key=lambda x: x[2]): stable, by to_port.
SortedByPort(s) ==
    IF s = <<>> THEN <<>>
    ELSE InsertByPort(SortedByPort(SubSeq(s, 1, Len(s) - 1)), s[Len(s)])

\* The cached object itself in place of a copy of it.
CopyByReference(heap, ref) == [heap |-> heap, ref |-> ref]

\* DataFrame.copy(): a new object with the same value.
Copy(heap, ref) == [heap |-> Append(heap, heap[ref]), ref |-> Len(heap) + 1]

RECURSIVE GatherLoop(_, _, _, _, _)
\* _gather_inputs: the loop over sorted_inputs.
GatherLoop(sorted_inputs, i, outputs, heap, inputs) ==
    IF i > Len(sorted_inputs) THEN [inputs |-> inputs, heap |-> heap]
    ELSE LET upstream_id == sorted_inputs[i][1] IN
         IF DictHas(outputs, upstream_id)
         THEN LET c == Copy(heap, DictGet(outputs, upstream_id)) IN
              GatherLoop(sorted_inputs, i + 1, outputs, c.heap,
                         Append(inputs, c.ref))
         ELSE GatherLoop(sorted_inputs, i + 1, outputs, heap, inputs)

\* WorkflowExecutor._gather_inputs: the references of the input tables, and
\* the heap with the copies in it.
GatherInputs(node_id, reverse_adj, outputs, heap) ==
    LET upstream_nodes == DictGetOr(reverse_adj, node_id, <<>>) IN
    IF upstream_nodes = <<>> THEN [inputs |-> <<>>, heap |-> heap]
    ELSE GatherLoop(SortedByPort(upstream_nodes), 1, outputs, heap, <<>>)

(***************************************************************************)
(* The state.                                                              *)
(***************************************************************************)
VARIABLES
    workflow,               \* the document handed to execute()
    executors,              \* the executors constructed: name -> self.*_dir
    ReadCSVNode_upload_dir, \* the class attribute ReadCSVNode.upload_dir
    OutputNode_output_dir,  \* the class attribute OutputNode.output_dir
    files,                  \* the files on disk
    dirs,                   \* the directories on disk
    pc,                     \* "idle", "running", "returned" or "raised"
    self,                   \* the executor whose execute() is running
    nodes,                  \* execute(): nodes
    adjacency,              \* execute(): adjacency
    reverse_adj,            \* execute(): reverse_adj
    execution_order,        \* execute(): execution_order
    pos,                    \* the position of the run loop in execution_order
    results,                \* execute(): results, data is a reference or 0
    outputs,                \* execute(): outputs, node id -> reference
    heap,                   \* the DataFrame objects of the call
    inputs_of,              \* node id -> the references in its inputs list
    invoked,                \* the node ids whose execute was called, in order
    history,                \* what each finished call returned or raised
    expression,             \* the expression text handed to the parser
    applied,                \* the operation applied on its own, its result
    node_call,              \* the node class, config and inputs of a direct
                            \* call of node.execute
    cancel                  \* the caller's cancellation signal: -1 until it
                            \* is raised, then the number of nodes executed
                            \* when it was raised

execVars ==
    <<pc, self, nodes, adjacency, reverse_adj, execution_order, pos, results,
      outputs, heap, inputs_of, invoked, history>>

diskVars == <<files, dirs>>

classVars == <<executors, ReadCSVNode_upload_dir, OutputNode_output_dir>>

exprVars == <<expression, applied>>

vars ==
    <<workflow, execVars, diskVars, classVars, exprVars, node_call, cancel>>

\* The directories the executors are constructed with.
ExecutorDirs ==
    [A |-> [upload_dir |-> "upA", output_dir |-> "outA"],
     B |-> [upload_dir |-> "upB", output_dir |-> "outB"]]

\* The values uuid.uuid4() may return.
UuidPool == {"f1", "f2"}

\* The uploads on disk.
InitialFiles ==
    [p \in {Path("upA", "u1"), Path("upB", "u1"), Path("upB", "u2")} |->
        Uploaded(p[1], p[2])]

\* results with the objects in place of their references: what the caller
\* reads from the map execute() returned.
Resolved(res, h) ==
    [i \in 1..Len(res) |->
        <<res[i][1],
          [success |-> res[i][2].success,
           data |-> IF res[i][2].data = 0 THEN NoneTable
                    ELSE h[res[i][2].data],
           error |-> res[i][2].error,
           metadata |-> res[i][2].metadata]>>]

(***************************************************************************)
(* WorkflowExecutor.__init__                                               *)
(***************************************************************************)
Construct(e) ==
    /\ e \notin DOMAIN executors
    /\ executors' = executors @@ (e :> ExecutorDirs[e])
    /\ ReadCSVNode_upload_dir' = ExecutorDirs[e].upload_dir
    /\ OutputNode_output_dir' = ExecutorDirs[e].output_dir
    /\ UNCHANGED <<workflow, execVars, diskVars, exprVars, node_call, cancel>>

(***************************************************************************)
(* WorkflowExecutor.execute, up to the run loop: the check of the node     *)
(* list, _build_graph and _topological_sort.  The call raises, or the run  *)
(* loop starts with empty results and outputs.                             *)
(***************************************************************************)
Begin(e, raised, message, g, order) ==
    /\ self' = e
    /\ nodes' = g.nodes
    /\ adjacency' = g.adjacency
    /\ reverse_adj' = g.reverse_adj
    /\ execution_order' = order
    /\ pos' = 1
    /\ results' = <<>>
    /\ outputs' = <<>>
    /\ heap' = <<>>
    /\ inputs_of' = <<>>
    /\ invoked' = <<>>
    /\ IF raised = "None"
       THEN pc' = "running" /\ history' = history
       ELSE /\ pc' = "raised"
            /\ history' = Append(history, [raised |-> raised,
                                           message |-> message,
                                           results |-> <<>>])

NoGraph == [nodes |-> <<>>, adjacency |-> <<>>, reverse_adj |-> <<>>]

\* execute() without the check of the node list.
ExecuteUnchecked(e) ==
    /\ pc \in {"idle", "returned", "raised"}
    /\ Len(history) < MaxCalls
    /\ e \in DOMAIN executors
    /\ LET nodes_config == ConfigGet(workflow, "nodes", <<>>)
           edges_config == ConfigGet(workflow, "edges", <<>>)
           g == BuildGraph(nodes_config, edges_config)
           t == TopologicalSort(g.nodes, g.adjacency)
       IN IF g.raised # "None"
          THEN Begin(e, g.raised, g.message, NoGraph, <<>>)
          ELSE IF t.raised # "None"
          THEN Begin(e, t.raised, t.message, NoGraph, <<>>)
          ELSE Begin(e, "None", "None", g, t.result)
    /\ cancel' = -1
    /\ UNCHANGED <<workflow, diskVars, classVars, exprVars, node_call>>

\* execute() running each node as the sort emits it: when the sort ends
\* short of a node, the nodes emitted so far have been executed and the
\* call raises.
ExecuteEmitting(e) ==
    /\ pc \in {"idle", "returned", "raised"}
    /\ Len(history) < MaxCalls
    /\ e \in DOMAIN executors
    /\ LET nodes_config == ConfigGet(workflow, "nodes", <<>>)
           edges_config == ConfigGet(workflow, "edges", <<>>)
           g == BuildGraph(nodes_config, edges_config)
           t == TopologicalSort(g.nodes, g.adjacency)
           emitted == TopologicalSortUnchecked(g.nodes, g.adjacency).result
       IN IF nodes_config = <<>>
          THEN Begin(e, "WorkflowError", "Workflow has no nodes", NoGraph, <<>>)
          ELSE IF g.raised # "None"
          THEN Begin(e, g.raised, g.message, NoGraph, <<>>)
          ELSE IF t.raised # "None"
          THEN /\ self' = e
               /\ nodes' = g.nodes
               /\ adjacency' = g.adjacency
               /\ reverse_adj' = g.reverse_adj
               /\ execution_order' = emitted
               /\ pos' = Len(emitted) + 1
               /\ results' = <<>>
               /\ outputs' = <<>>
               /\ heap' = <<>>
               /\ inputs_of' = <<>>
               /\ invoked' = emitted
               /\ pc' = "raised"
               /\ history' = Append(history, [raised |-> t.raised,
                                              message |-> t.message,
                                              results |-> <<>>])
          ELSE Begin(e, "None", "None", g, t.result)
    /\ cancel' = -1
    /\ UNCHANGED <<workflow, diskVars, classVars, exprVars, node_call>>

Execute(e) ==
    /\ pc \in {"idle", "returned", "raised"}
    /\ Len(history) < MaxCalls
    /\ e \in DOMAIN executors
    /\ LET nodes_config == ConfigGet(workflow, "nodes", <<>>)
           edges_config == ConfigGet(workflow, "edges", <<>>)
           g == BuildGraph(nodes_config, edges_config)
           t == TopologicalSort(g.nodes, g.adjacency)
       IN IF nodes_config = <<>>
          THEN Begin(e, "WorkflowError", "Workflow has no nodes", NoGraph, <<>>)
          ELSE IF g.raised # "None"
          THEN Begin(e, g.raised, g.message, NoGraph, <<>>)
          ELSE IF t.raised # "None"
          THEN Begin(e, t.raised, t.message, NoGraph, <<>>)
          ELSE Begin(e, "None", "None", g, t.result)
    /\ cancel' = -1
    /\ UNCHANGED <<workflow, diskVars, classVars, exprVars, node_call>>

\* The reference of the data of a NodeResult (0 for None), and the heap with
\* the table in it when the node built one.
Store(h, input_refs, data) ==
    CASE data.kind = "None" -> [heap |-> h, ref |-> 0]
      [] data.kind = "input" -> [heap |-> h, ref |-> input_refs[data.idx]]
      [] OTHER -> [heap |-> Append(h, data.value), ref |-> Len(h) + 1]

\* The files after the writes of a node.
Write(fs, written) ==
    [p \in DOMAIN fs \cup {w.path : w \in written} |->
        IF \E w \in written : w.path = p
        THEN (CHOOSE w \in written : w.path = p).table
        ELSE fs[p]]

(***************************************************************************)
(* WorkflowExecutor.execute, one iteration of the run loop.                *)
(***************************************************************************)
\* node_id and node of the iteration
CurrentId == execution_order[pos]

CurrentNode == DictGet(nodes, CurrentId)

\* inputs = self._gather_inputs(node_id, reverse_adj, outputs)
Gathered == GatherInputs(CurrentId, reverse_adj, outputs, heap)

CurrentInputs ==
    [i \in 1..Len(Gathered.inputs) |-> Gathered.heap[Gathered.inputs[i]]]

\* What the node classes read when the node executes.
Env ==
    [upload_dir |-> ReadCSVNode_upload_dir,
     output_dir |-> OutputNode_output_dir,
     files |-> files, dirs |-> dirs]

\* The iteration without the try/except around node.execute: what the node
\* raises leaves execute().
RunNodeUncaught ==
    /\ pc = "running"
    /\ pos <= Len(execution_order)
    /\ \E file_id \in IF DrawsUuid(CurrentNode, CurrentInputs, Env)
                      THEN UuidPool ELSE {"None"} :
         LET r == NodeExecute(CurrentNode, CurrentInputs, Env, file_id)
             s == Store(Gathered.heap, Gathered.inputs, r.data)
         IN /\ results' = IF r.raised THEN results
                          ELSE DictSet(results, CurrentId,
                                   [success |-> r.success, data |-> s.ref,
                                    error |-> r.error,
                                    metadata |-> r.metadata])
            /\ outputs' = IF ~r.raised /\ r.success /\ s.ref # 0
                          THEN DictSet(outputs, CurrentId, s.ref)
                          ELSE outputs
            /\ heap' = s.heap
            /\ files' = Write(files, r.written)
            /\ dirs' = dirs \cup r.made
            /\ pc' = IF r.raised THEN "raised" ELSE pc
            /\ history' = IF r.raised
                          THEN Append(history, [raised |-> "AttributeError",
                                                message |-> r.error,
                                                results |-> <<>>])
                          ELSE history
    /\ inputs_of' = DictSet(inputs_of, CurrentId, Gathered.inputs)
    /\ invoked' = Append(invoked, CurrentId)
    /\ pos' = pos + 1
    /\ UNCHANGED <<workflow, self, nodes, adjacency, reverse_adj,
                   execution_order, classVars, exprVars, node_call, cancel>>

\* The iteration with outputs[node_id] = result.data for every result, a
\* failure and a result without data included.
RunNodeCachesAll ==
    /\ pc = "running"
    /\ pos <= Len(execution_order)
    /\ \E file_id \in IF DrawsUuid(CurrentNode, CurrentInputs, Env)
                      THEN UuidPool ELSE {"None"} :
         LET r == NodeExecute(CurrentNode, CurrentInputs, Env, file_id)
             s == Store(Gathered.heap, Gathered.inputs, r.data)
         IN /\ results' = DictSet(results, CurrentId,
                   [success |-> r.success, data |-> s.ref,
                    error |-> r.error, metadata |-> r.metadata])
            /\ outputs' = DictSet(outputs, CurrentId, s.ref)
            /\ heap' = s.heap
            /\ files' = Write(files, r.written)
            /\ dirs' = dirs \cup r.made
    /\ inputs_of' = DictSet(inputs_of, CurrentId, Gathered.inputs)
    /\ invoked' = Append(invoked, CurrentId)
    /\ pos' = pos + 1
    /\ UNCHANGED <<workflow, pc, self, nodes, adjacency, reverse_adj,
                   execution_order, history, classVars, exprVars, node_call,
                   cancel>>

RunNode ==
    /\ pc = "running"
    /\ pos <= Len(execution_order)
    /\ \E file_id \in IF DrawsUuid(CurrentNode, CurrentInputs, Env)
                      THEN UuidPool ELSE {"None"} :
         LET r == NodeExecute(CurrentNode, CurrentInputs, Env, file_id)
             s == Store(Gathered.heap, Gathered.inputs, r.data)
         IN /\ results' = DictSet(results, CurrentId,
                   [success |-> r.success, data |-> s.ref,
                    error |-> r.error, metadata |-> r.metadata])
            /\ outputs' = IF ~r.raised /\ r.success /\ s.ref # 0
                          THEN DictSet(outputs, CurrentId, s.ref)
                          ELSE outputs
            /\ heap' = s.heap
            /\ files' = Write(files, r.written)
            /\ dirs' = dirs \cup r.made
    /\ inputs_of' = DictSet(inputs_of, CurrentId, Gathered.inputs)
    /\ invoked' = Append(invoked, CurrentId)
    /\ pos' = pos + 1
    /\ UNCHANGED <<workflow, pc, self, nodes, adjacency, reverse_adj,
                   execution_order, history, classVars, exprVars, node_call,
                   cancel>>

(***************************************************************************)
(* WorkflowExecutor.execute: return results.                               *)
(***************************************************************************)
\* The loop left at the first node that did not succeed.
ReturnOnFailure ==
    /\ pc = "running"
    /\ \/ pos > Len(execution_order)
       \/ \E i \in 1..Len(results) : ~results[i][2].success
    /\ pc' = "returned"
    /\ history' = Append(history, [raised |-> "None", message |-> "None",
                                   results |-> Resolved(results, heap)])
    /\ UNCHANGED <<workflow, self, nodes, adjacency, reverse_adj,
                   execution_order, pos, results, outputs, heap, inputs_of,
                   invoked, diskVars, classVars, exprVars, node_call, cancel>>

\* The return of a loop whose end test is off by one: it waits for a
\* position past the end of the order that the loop never takes.
ReturnPastEnd ==
    /\ pc = "running"
    /\ pos > Len(execution_order) + 1
    /\ pc' = "returned"
    /\ history' = Append(history, [raised |-> "None", message |-> "None",
                                   results |-> Resolved(results, heap)])
    /\ UNCHANGED <<workflow, self, nodes, adjacency, reverse_adj,
                   execution_order, pos, results, outputs, heap, inputs_of,
                   invoked, diskVars, classVars, exprVars, node_call, cancel>>

Return ==
    /\ pc = "running"
    /\ pos > Len(execution_order)
    /\ pc' = "returned"
    /\ history' = Append(history, [raised |-> "None", message |-> "None",
                                   results |-> Resolved(results, heap)])
    /\ UNCHANGED <<workflow, self, nodes, adjacency, reverse_adj,
                   execution_order, pos, results, outputs, heap, inputs_of,
                   invoked, diskVars, classVars, exprVars, node_call, cancel>>

(***************************************************************************)
(* routes.run_workflow: the response built from what executor.execute      *)
(* did, which is either an exception or the results map.                   *)
(***************************************************************************)
\* errors: one entry per result that is no success and has an error.
NodeErrors(res) ==
    LET failed == SelectSeq(res, LAMBDA e : /\ ~e[2].success
                                            /\ e[2].error # "None"
                                            /\ e[2].error # "")
    IN [i \in 1..Len(failed) |-> failed[i][1] \o ": " \o failed[i][2].error]

\* final_output_url: the file of the last success whose metadata has a
\* file_id.
FinalOutputUrl(res) ==
    LET hits == {i \in 1..Len(res) :
                    /\ res[i][2].success
                    /\ "file_id" \in DOMAIN res[i][2].metadata}
    IN IF hits = {} THEN "None"
       ELSE "/api/download/"
                \o res[CHOOSE i \in hits : \A j \in hits : j <= i][2]
                       .metadata.file_id

\* node_outputs: node_id, success, columns and error of every result; rows
\* and preview are read off the same table.
NodeOutputs(res) ==
    [i \in 1..Len(res) |->
        <<res[i][1],
          [node_id |-> res[i][1], success |-> res[i][2].success,
           columns |-> res[i][2].data.columns, rows |-> res[i][2].data.rows,
           error |-> res[i][2].error]>>]

RunWorkflowResponse(status, node_outputs, final_output_url, errors) ==
    [status |-> status, node_outputs |-> node_outputs,
     final_output_url |-> final_output_url, errors |-> errors]

\* run_workflow with status "partial" whenever errors is not empty.
run_workflow_partial(returned) ==
    IF returned.raised
           \in {"WorkflowError", "CycleDetectedError", "NodeNotFoundError"}
    THEN RunWorkflowResponse("error", <<>>, "None", <<returned.message>>)
    ELSE IF returned.raised # "None"
    THEN RunWorkflowResponse("error", <<>>, "None",
                             <<"Internal error: " \o returned.message>>)
    ELSE LET errors == NodeErrors(returned.results)
         IN RunWorkflowResponse(IF errors # <<>> THEN "partial" ELSE "success",
                                NodeOutputs(returned.results),
                                FinalOutputUrl(returned.results), errors)

\* run_workflow
run_workflow(returned) ==
    IF returned.raised
           \in {"WorkflowError", "CycleDetectedError", "NodeNotFoundError"}
    THEN RunWorkflowResponse("error", <<>>, "None", <<returned.message>>)
    ELSE IF returned.raised # "None"
    THEN RunWorkflowResponse("error", <<>>, "None",
                             <<"Internal error: " \o returned.message>>)
    ELSE LET results_ == returned.results
             errors == NodeErrors(results_)
             status == IF errors # <<>>
                       THEN IF \E i \in 1..Len(results_) :
                                   results_[i][2].success
                            THEN "partial" ELSE "error"
                       ELSE "success"
         IN RunWorkflowResponse(status, NodeOutputs(results_),
                                FinalOutputUrl(results_), errors)

(***************************************************************************)
(* The workflow documents (models.py: Workflow).                            *)
(***************************************************************************)
NodeDef(id, type, config) == [id |-> id, type |-> type, config |-> config]

Edge(from, to, port) ==
    [fromNodeId |-> from, toNodeId |-> to, fromPort |-> "out", toPort |-> port]

SeqsUpTo(S, n) == UNION {[1..k -> S] : k \in 0..n}

EmptyConfig == <<>>

\* Documents over three pass-through nodes and every edge list, cycles,
\* self-loops and duplicate edges included.
GraphDocs ==
    {[nodes |-> <<NodeDef("c", "Filter", EmptyConfig),
                  NodeDef("a", "ReadCSV", [upload_id |-> "u1"]),
                  NodeDef("b", "Filter", EmptyConfig)>>,
      edges |-> edges] :
        edges \in SeqsUpTo({Edge(f, t, "in") : f, t \in {"a", "b", "c"}},
                           MaxEdges)}

\* Documents over nodes that succeed, fail and raise, with forward edges
\* into either port.
SourceNodes ==
    {NodeDef("a", "ReadCSV", [upload_id |-> "u1"]),
     NodeDef("a", "ReadCSV", [upload_id |-> "u2"]),
     NodeDef("a", "ReadCSV", PyNone)}

MiddleNodes ==
    {NodeDef("b", "ReadCSV", [upload_id |-> "u1"]),
     NodeDef("b", "Filter", EmptyConfig),
     NodeDef("b", "Filter", [expression |-> <<"x", "=", "=", "x">>]),
     NodeDef("b", "Filter", PyNone),
     NodeDef("b", "Output", EmptyConfig)}

SinkNodes ==
    {NodeDef("c", "Filter", EmptyConfig),
     NodeDef("c", "Select", [columns |-> <<"x">>]),
     NodeDef("c", "Join", [leftKey |-> "k", rightKey |-> "k"]),
     NodeDef("c", "Output", EmptyConfig)}

ForwardEdges ==
    {Edge("a", "b", "in")}
    \cup {Edge(from, "c", port) : from \in {"a", "b"}, port \in {"in", "in_1"}}

NodeDocs ==
    {[nodes |-> <<a, b, c>>, edges |-> edges] :
        a \in SourceNodes, b \in MiddleNodes, c \in SinkNodes,
        edges \in SeqsUpTo(ForwardEdges, MaxInputs)}

\* Edges between a, b and an id z that is no node, and edges that lack the
\* field of one end.
RejectedEdges ==
    {Edge(f, t, "in") : f, t \in {"a", "b", "z"}}
    \cup {[toNodeId |-> "b", toPort |-> "in"],
          [fromNodeId |-> "a", toPort |-> "in"]}

\* Documents execute() rejects before the run loop: no nodes, a node type
\* that is not registered, an edge that names no node.
RejectedDocs ==
    {[edges |-> edges] : edges \in SeqsUpTo(RejectedEdges, 1)}
    \cup {[nodes |-> <<>>, edges |-> edges] :
              edges \in SeqsUpTo(RejectedEdges, 1)}
    \cup {[nodes |-> <<NodeDef("a", "ReadCSV", [upload_id |-> "u1"]),
                       NodeDef("b", type, EmptyConfig)>>,
           edges |-> edges] :
            type \in {"Filter", "Bogus"},
            edges \in SeqsUpTo(RejectedEdges, 1)}

Workflows == GraphDocs \cup NodeDocs \cup RejectedDocs

(***************************************************************************)
(* The initial state: executor A is constructed, no call has been made.    *)
(***************************************************************************)
InitCall ==
    /\ pc = "idle"
    /\ self = "None"
    /\ nodes = <<>>
    /\ adjacency = <<>>
    /\ reverse_adj = <<>>
    /\ execution_order = <<>>
    /\ pos = 1
    /\ results = <<>>
    /\ outputs = <<>>
    /\ heap = <<>>
    /\ inputs_of = <<>>
    /\ invoked = <<>>
    /\ history = <<>>
    /\ cancel = -1

InitWorld ==
    /\ executors = [e \in {"A"} |-> ExecutorDirs[e]]
    /\ ReadCSVNode_upload_dir = ExecutorDirs["A"].upload_dir
    /\ OutputNode_output_dir = ExecutorDirs["A"].output_dir
    /\ files = InitialFiles
    /\ dirs = {"upA", "upB"}

NoNodeCall == node_call = [node_type |-> "None"]

NoExpression ==
    /\ expression = <<>>
    /\ applied = [fn |-> "None"]

Init ==
    /\ workflow \in Workflows
    /\ InitCall
    /\ InitWorld
    /\ NoNodeCall
    /\ NoExpression

Next ==
    \/ \E e \in DOMAIN ExecutorDirs : Execute(e)
    \/ RunNode
    \/ Return

Spec == Init /\ [][Next]_vars

(***************************************************************************)
(* Properties of the executor.                                             *)
(***************************************************************************)
DocNodes == ConfigGet(workflow, "nodes", <<>>)

DocEdges == ConfigGet(workflow, "edges", <<>>)

DocIds == {DocNodes[i].id : i \in 1..Len(DocNodes)}

\* The source, the destination and the destination port of the k-th edge of
\* the document, as _build_graph reads them.
EdgeFrom(k) == ConfigGet(DocEdges[k], "fromNodeId", "None")

EdgeTo(k) == ConfigGet(DocEdges[k], "toNodeId", "None")

EdgePort(k) == ConfigGet(DocEdges[k], "toPort", "in")

\* The position of a node id in invoked, 0 when its execute was not called.
InvokedAt(id) ==
    IF \E i \in 1..Len(invoked) : invoked[i] = id
    THEN CHOOSE i \in 1..Len(invoked) : invoked[i] = id
    ELSE 0

DuplicateEdge ==
    \E i, j \in 1..Len(DocEdges) :
        /\ i < j
        /\ EdgeFrom(i) = EdgeFrom(j)
        /\ EdgeTo(i) = EdgeTo(j)

\* C1: in a call that reaches the run loop, when the execute of a node is
\* invoked, the execute of every node it has an incoming edge from was
\* invoked earlier and its result is recorded; duplicate edges included.
C1_UpstreamFirst ==
    pc \in {"running", "returned"} =>
        \A i \in 1..Len(invoked) : \A k \in 1..Len(DocEdges) :
            EdgeTo(k) = invoked[i] =>
                /\ InvokedAt(EdgeFrom(k)) \in 1..(i - 1)
                /\ DictKeys(results)[InvokedAt(EdgeFrom(k))]
                       = EdgeFrom(k)

\* C1 happens: a call returned whose order is not the order of the ids and
\* whose document has a duplicate edge into a node with a second upstream.
C1_Witness ==
    /\ pc = "returned"
    /\ DuplicateEdge
    /\ invoked = <<"a", "c", "b">>
    /\ \E k \in 1..Len(DocEdges) :
           EdgeFrom(k) = "c" /\ EdgeTo(k) = "b"
    /\ \E k \in 1..Len(DocEdges) :
           EdgeFrom(k) = "a" /\ EdgeTo(k) = "b"

WellFormed ==
    /\ DocNodes # <<>>
    /\ \A i \in 1..Len(DocNodes) : DocNodes[i].type \in NODE_REGISTRY
    /\ \A k \in 1..Len(DocEdges) :
           EdgeFrom(k) \in DocIds /\ EdgeTo(k) \in DocIds

RECURSIVE ReachableFrom(_, _)
\* The node ids reachable from the set S by one or more edges, S a set of
\* successors.
ReachableFrom(S, n) ==
    IF n = 0 THEN S
    ELSE ReachableFrom(
             S \cup {EdgeTo(k) :
                        k \in {j \in 1..Len(DocEdges) :
                                  EdgeFrom(j) \in S}},
             n - 1)

HasCycle ==
    \E v \in DocIds :
        v \in ReachableFrom(
                  {EdgeTo(k) :
                      k \in {j \in 1..Len(DocEdges) :
                                EdgeFrom(j) = v}},
                  Len(DocNodes))

SelfLoop == \E k \in 1..Len(DocEdges) :
                EdgeFrom(k) = EdgeTo(k)

\* C2: for a document whose node types are registered and whose edges name
\* nodes of the document, a call ends with CycleDetectedError exactly when
\* the edges contain a directed cycle, and then no node was executed and no
\* results exist.
C2_CycleErrorIffCycle ==
    WellFormed =>
        /\ pc = "running" => ~HasCycle
        /\ \A i \in 1..Len(history) :
               /\ history[i].raised = "CycleDetectedError" <=> HasCycle
               /\ history[i].raised = "CycleDetectedError" =>
                      history[i].results = <<>>
        /\ pc = "raised" => results = <<>> /\ invoked = <<>>

\* C2 happens: a call failed on a cycle through two or more nodes.
C2_Witness ==
    /\ WellFormed
    /\ pc = "raised"
    /\ history[Len(history)].raised = "CycleDetectedError"
    /\ ~SelfLoop

\* C3: when the execute of a node raises, the call goes on: the result of
\* the node is a failure whose error is the message of the exception, the
\* node gets no entry in outputs, and the loop moves to the next node; the
\* call returns only after the last node of the order.
C3_RaiseIsCaught ==
    [][/\ (RunNode /\ NodeExecute(CurrentNode, CurrentInputs, Env,
                                  "None").raised) =>
              /\ pc' = "running"
              /\ pos' = pos + 1
              /\ DictGet(results', CurrentId) =
                     [success |-> FALSE, data |-> 0,
                      error |-> NodeExecute(CurrentNode, CurrentInputs, Env,
                                            "None").error,
                      metadata |-> NoMetadata]
              /\ ~DictHas(outputs', CurrentId)
       /\ pc' = "returned" => Len(invoked') = Len(execution_order')
      ]_vars

\* C3 happens: a call returned in which a node raised and two nodes were
\* executed after it.
C3_Witness ==
    /\ pc = "returned"
    /\ Len(results) = 3
    /\ results[1][2].error = AttributeErrorGet
    /\ ~DictHas(outputs, results[1][1])

C5_FailurePropagates ==
    pc = "returned" =>
        \A k \in 1..Len(DocEdges) :
            ~DictGet(results, EdgeFrom(k)).success =>
                ~DictGet(results, EdgeTo(k)).success

\* The input objects handed to nodes: <<i, p>> is the p-th input of the
\* i-th node executed.
Handed ==
    UNION {{<<i, p>> : p \in 1..Len(inputs_of[i][2])} :
              i \in 1..Len(inputs_of)}

HandedRef(ip) == inputs_of[ip[1]][2][ip[2]]

\* C6: every table handed to a node is an object of its own: it is not the
\* cached output of another node and not an object handed to any other
\* consumer or at any other position, and it has the value of the cached
\* output of a node that the consumer has an incoming edge from.
C6_InputsAreCopies ==
    pc \in {"running", "returned"} =>
        /\ \A x, y \in Handed : x # y => HandedRef(x) # HandedRef(y)
        /\ \A x \in Handed : \A k \in 1..Len(outputs) :
               outputs[k][1] # inputs_of[x[1]][1] =>
                   outputs[k][2] # HandedRef(x)
        /\ \A x \in Handed : \E k \in 1..Len(DocEdges) :
               /\ EdgeTo(k) = inputs_of[x[1]][1]
               /\ DictHas(outputs, EdgeFrom(k))
               /\ heap[HandedRef(x)]
                      = heap[DictGet(outputs, EdgeFrom(k))]

\* C6 happens: two consumers were handed the output of the same upstream.
C6_Witness ==
    /\ pc = "returned"
    /\ \E x, y \in Handed :
           /\ x[1] # y[1]
           /\ heap[HandedRef(x)] = heap[HandedRef(y)]
           /\ heap[HandedRef(x)] = heap[DictGet(outputs, "a")]

\* The metadata of a result without the fields an Output node derives from
\* uuid.uuid4().
WithoutFileId(metadata) ==
    IF "file_id" \in DOMAIN metadata
    THEN [format |-> metadata.format]
    ELSE metadata

WithoutFileIds(returned) ==
    [raised |-> returned.raised, message |-> returned.message,
     results |-> [i \in 1..Len(returned.results) |->
        <<returned.results[i][1],
          [returned.results[i][2] EXCEPT
              !.metadata = WithoutFileId(@)]>>]]

IsoDocs ==
    {[nodes |-> <<a, NodeDef("b", "Filter", EmptyConfig), c>>,
      edges |-> edges] :
        a \in SourceNodes,
        c \in {NodeDef("c", "Output", EmptyConfig),
               NodeDef("c", "Filter", EmptyConfig)},
        edges \in SeqsUpTo({Edge(ft[1], ft[2], "in") :
                               ft \in {<<"a", "b">>, <<"a", "c">>,
                                       <<"b", "c">>}}, MaxInputs)}

InitIso ==
    /\ workflow \in IsoDocs
    /\ InitCall
    /\ InitWorld
    /\ NoNodeCall
    /\ NoExpression

NextIso ==
    \/ \E e \in DOMAIN ExecutorDirs : Construct(e)
    \/ \E e \in DOMAIN ExecutorDirs : Execute(e)
    \/ RunNode
    \/ Return

SpecIso == InitIso /\ [][NextIso]_vars

\* C7 as the specification states it: a ReadCSV node run by an executor
\* reads from the upload directory that executor was constructed with, and
\* an Output node run by it writes to its output directory.
C7_ExecutorUsesOwnDirs ==
    pc \in {"running", "returned"} =>
        \A i \in 1..Len(results) :
            LET node == DictGet(nodes, results[i][1])
                metadata == results[i][2].metadata
            IN /\ (node.node_type = "ReadCSV" /\ results[i][2].success) =>
                      metadata.source[1] = executors[self].upload_dir
               /\ (node.node_type = "Output" /\ results[i][2].success) =>
                      metadata.file_path[1] = executors[self].output_dir

(***************************************************************************)
(* The expression parser on its own: an expression text is handed to       *)
(* validate, to evaluate_filter and evaluate_formula with a table, and to  *)
(* a Filter and a Formula node.                                            *)
(***************************************************************************)
Pieces ==
    {<<"x">>, <<"e", "x", "e", "c">>, <<"o", "s">>,
     <<"s", "u", "b", "p", "r", "o", "c", "e", "s", "s">>, <<"_", "_">>,
     <<"l", "a", "m", "b", "d", "a">>, <<" ">>, <<"(">>, <<")">>, <<".">>,
     <<"&", "&">>, <<"|", "|">>, <<"!">>, <<"=">>}

RECURSIVE Flat(_)
Flat(ps) == IF ps = <<>> THEN <<>> ELSE Head(ps) \o Flat(Tail(ps))

Expressions == {Flat(ps) : ps \in SeqsUpTo(Pieces, MaxPieces)}

\* The table the expressions are evaluated on.
Df == Uploaded("upA", "u1")

InitExpr ==
    /\ workflow = [nodes |-> <<>>, edges |-> <<>>]
    /\ InitCall
    /\ InitWorld
    /\ NoNodeCall
    /\ expression \in Expressions
    /\ applied = [fn |-> "None"]

Apply(fn, result) ==
    /\ applied.fn = "None"
    /\ applied' = [fn |-> fn, result |-> result]
    /\ UNCHANGED <<workflow, execVars, diskVars, classVars, expression,
                   node_call, cancel>>

Validate == Apply("validate", validate(expression))

EvaluateFilter == Apply("evaluate_filter", evaluate_filter(Df, expression))

EvaluateFormula ==
    Apply("evaluate_formula", evaluate_formula(Df, expression, "y"))

FilterNode ==
    Apply("Filter", FilterExecute([expression |-> expression], <<Df>>))

FormulaNode ==
    Apply("Formula",
          FormulaExecute([expression |-> expression, newCol |-> "y"],
                         <<Df>>))

NextExpr ==
    \/ Validate
    \/ EvaluateFilter
    \/ EvaluateFormula
    \/ FilterNode
    \/ FormulaNode

SpecExpr == InitExpr /\ [][NextExpr]_vars

\* A forbidden pattern is found in the expression.
Forbidden ==
    \E n \in 1..Len(DANGEROUS_PATTERNS) :
        Search(DANGEROUS_PATTERNS[n], expression)

\* C9: for an expression in which a forbidden pattern is found, validate
\* answers invalid, evaluate_filter and evaluate_formula raise with no
\* pandas call made on the table, and the Filter and the Formula node
\* return a failure without data.
C9_ForbiddenIsRejected ==
    Forbidden =>
        /\ applied.fn = "validate" =>
               /\ ~applied.result.ok
               /\ applied.result.error # "None"
        /\ applied.fn \in {"evaluate_filter", "evaluate_formula"} =>
               /\ applied.result.raised
               /\ applied.result.calls = <<>>
               /\ applied.result.table = NoneTable
        /\ applied.fn \in {"Filter", "Formula"} =>
               /\ ~applied.result.raised
               /\ ~applied.result.success
               /\ applied.result.data = NoData
               /\ applied.result.written = {}

\* C9 happens: a Filter node was run on an expression that is well-formed
\* Python and in which a forbidden pattern is found.
C9_Witness ==
    /\ Forbidden
    /\ applied.fn = "Filter"
    /\ AstParses(expression)
    /\ ~applied.result.success

\* The expression has a text the rewrites change: &&, || or a ! that is
\* not followed by =.
Rewritten ==
    \E i \in 1..Len(expression) :
        \/ /\ expression[i] \in {"&", "|"}
           /\ i < Len(expression)
           /\ expression[i + 1] = expression[i]
        \/ /\ expression[i] = "!"
           /\ ~(i < Len(expression) /\ expression[i + 1] = "=")

\* C10 as the specification states it: an expression that the rewrites
\* change and that is well-formed after them is accepted by evaluate_filter
\* and evaluate_formula and gives the result of its rewritten spelling.
C10_RewriteBeforeCheck ==
    (Rewritten /\ validate(NormalizeExpression(expression)).ok) =>
        /\ applied.fn = "evaluate_filter" =>
               applied.result
                   = evaluate_filter(Df, NormalizeExpression(expression))
        /\ applied.fn = "evaluate_formula" =>
               applied.result
                   = evaluate_formula(Df, NormalizeExpression(expression),
                                      "y")

(***************************************************************************)
(* _topological_sort on its own: the nodes of the document in every order, *)
(* with every edge list.                                                   *)
(***************************************************************************)
\* The sequences that list every element of S once.
Orderings(S) ==
    {p \in [1..Cardinality(S) -> S] :
        \A i, j \in 1..Cardinality(S) : i # j => p[i] # p[j]}

SortDocs ==
    {[nodes |-> [i \in 1..Len(ids) |->
                    IF ids[i] = "a"
                    THEN NodeDef("a", "ReadCSV", [upload_id |-> "u1"])
                    ELSE NodeDef(ids[i], "Filter", EmptyConfig)],
      edges |-> edges] :
        ids \in Orderings({"a", "b", "c"}),
        edges \in SeqsUpTo({Edge(f, t, "in") : f, t \in {"a", "b", "c"}},
                           MaxEdges)}

InitSort ==
    /\ workflow \in SortDocs
    /\ InitCall
    /\ InitWorld
    /\ NoNodeCall
    /\ NoExpression

\* execution_order = self._topological_sort(nodes, adjacency), on the graph
\* _build_graph made of the document.
TopologicalSortCall ==
    LET g == BuildGraph(DocNodes, DocEdges)
    IN Apply("_topological_sort", TopologicalSort(g.nodes, g.adjacency))

NextSort == TopologicalSortCall

SpecSort == InitSort /\ [][NextSort]_vars

RECURSIVE LeastReadyOrder(_)
\* The order that emits, at each step, the least id among the nodes not yet
\* emitted whose upstream nodes have all been emitted.  It reads the node
\* ids and the edges of the document as sets.
LeastReadyOrder(emitted) ==
    LET done == SeqToSet(emitted)
        ready == {n \in DocIds \ done :
                     \A k \in 1..Len(DocEdges) :
                         EdgeTo(k) = n =>
                             EdgeFrom(k) \in done}
    IN IF ready = {} THEN emitted
       ELSE LeastReadyOrder(
                Append(emitted,
                       CHOOSE n \in ready : \A m \in ready : ~StrLt(m, n)))

\* C11: for an acyclic workflow _topological_sort raises nothing and returns
\* the order in which each node emitted is the least id, in string order,
\* among the nodes whose upstream nodes have all been emitted; the order of
\* the nodes and of the edges in the document has no part in it.
C11_LeastReadyOrder ==
    (applied.fn = "_topological_sort" /\ ~HasCycle) =>
        /\ applied.result.raised = "None"
        /\ applied.result.result = LeastReadyOrder(<<>>)

\* C11 happens: the document lists c, b, a and the edge c -> b only, and
\* the order is a, c, b.
C11_Witness ==
    /\ applied.fn = "_topological_sort"
    /\ [i \in 1..Len(DocNodes) |-> DocNodes[i].id] = <<"c", "b", "a">>
    /\ Len(DocEdges) = 1
    /\ EdgeFrom(1) = "c" /\ EdgeTo(1) = "b"
    /\ applied.result.result = <<"a", "c", "b">>

(***************************************************************************)
(* The input ports: a is read, b filters a, and c receives edges from a    *)
(* and b into the ports in, in_0 and in_1 and into the default port.       *)
(***************************************************************************)
\* An edge of a document that names no ports.
EdgeWithoutPorts(from, to) == [fromNodeId |-> from, toNodeId |-> to]

PortEdges ==
    {Edge(from, "c", port) :
        from \in {"a", "b"}, port \in {"in", "in_0", "in_1"}}
    \cup {EdgeWithoutPorts(from, "c") : from \in {"a", "b"}}

PortDocs ==
    {[nodes |-> <<NodeDef("a", "ReadCSV", [upload_id |-> "u1"]),
                  NodeDef("b", "Filter",
                          [expression |-> <<"x", "=", "=", "x">>]),
                  c>>,
      edges |-> <<Edge("a", "b", "in")>> \o edges] :
        c \in {NodeDef("c", "Join", [leftKey |-> "k", rightKey |-> "k"]),
               NodeDef("c", "Filter", EmptyConfig)},
        edges \in SeqsUpTo(PortEdges, MaxInputs)}

InitPorts ==
    /\ workflow \in PortDocs
    /\ InitCall
    /\ InitWorld
    /\ NoNodeCall
    /\ NoExpression

NextPorts ==
    \/ \E e \in DOMAIN ExecutorDirs : Execute(e)
    \/ RunNode
    \/ Return

SpecPorts == InitPorts /\ [][NextPorts]_vars

\* The edges into node n whose source has a cached output.
CachedEdgesInto(n) ==
    {k \in 1..Len(DocEdges) : EdgeTo(k) = n /\ DictHas(outputs, EdgeFrom(k))}

\* C12: the inputs list handed to a node holds one table per edge into the
\* node whose source has a cached output, each equal to that output, and
\* the toPort names of the edges (a missing toPort is "in") ascend in
\* string order along the list, whatever the order of the edges in the
\* document.
C12_InputsInPortOrder ==
    \A x \in 1..Len(inputs_of) :
        LET n == inputs_of[x][1]
            handed == inputs_of[x][2]
        IN \E order \in Orderings(CachedEdgesInto(n)) :
               /\ Len(handed) = Len(order)
               /\ \A p \in 1..Len(order) :
                      heap[handed[p]]
                          = heap[DictGet(outputs, EdgeFrom(order[p]))]
               /\ \A p \in 1..(Len(order) - 1) :
                      ~StrLt(EdgePort(order[p + 1]), EdgePort(order[p]))

\* C12 happens: the document lists the edge from b into port in_1 before
\* the edge from a into the default port, and c is handed the output of a
\* first and the different output of b second.
C12_Witness ==
    /\ Len(DocEdges) = 3
    /\ EdgeFrom(2) = "b" /\ EdgePort(2) = "in_1"
    /\ EdgeFrom(3) = "a" /\ "toPort" \notin DOMAIN DocEdges[3]
    /\ DictHas(inputs_of, "c")
    /\ Len(DictGet(inputs_of, "c")) = 2
    /\ heap[DictGet(inputs_of, "c")[1]] = heap[DictGet(outputs, "a")]
    /\ heap[DictGet(inputs_of, "c")[2]] = heap[DictGet(outputs, "b")]
    /\ heap[DictGet(outputs, "a")] # heap[DictGet(outputs, "b")]

(***************************************************************************)
(* The documents execute() rejects before the run loop.                    *)
(***************************************************************************)
\* Every call made so far raised the exception with the message, returned
\* no results map and executed no node.
RejectedWith(raised, message) ==
    /\ pc \in {"idle", "raised"}
    /\ results = <<>>
    /\ invoked = <<>>
    /\ \A i \in 1..Len(history) :
           /\ history[i].raised = raised
           /\ history[i].message = message
           /\ history[i].results = <<>>

\* C13: a call on a document whose node list is missing or empty raises
\* WorkflowError("Workflow has no nodes") and returns no results map,
\* whatever the edge list holds.
C13_NoNodes ==
    DocNodes = <<>> => RejectedWith("WorkflowError", "Workflow has no nodes")

\* C13 happens: a call was made on a document without the key nodes whose
\* edge list holds an edge.
C13_Witness ==
    /\ "nodes" \notin DOMAIN workflow
    /\ DocEdges # <<>>
    /\ pc = "raised"
    /\ history # <<>>

\* The positions of the nodes of the document whose type is not registered.
UnknownTypes == {i \in 1..Len(DocNodes) : DocNodes[i].type \notin NODE_REGISTRY}

\* C14: a call on a document one of whose nodes has a type that is not in
\* NODE_REGISTRY raises one WorkflowError("Unknown node type: <type>") and
\* returns no per-node results, the other nodes being valid or not.
C14_UnknownType ==
    UnknownTypes # {} =>
        RejectedWith("WorkflowError",
                     "Unknown node type: "
                         \o DocNodes[CHOOSE i \in UnknownTypes :
                                         \A j \in UnknownTypes : i <= j].type)

\* C14 happens: a call was made on a document with a valid ReadCSV node, a
\* node of an unknown type and an edge between the two.
C14_Witness ==
    /\ UnknownTypes # {}
    /\ \E i \in 1..Len(DocNodes) : DocNodes[i].type = "ReadCSV"
    /\ \E k \in 1..Len(DocEdges) : EdgeFrom(k) = "a" /\ EdgeTo(k) = "b"
    /\ pc = "raised"
    /\ history # <<>>

\* The edges of the document one of whose ends is not a node of it; a
\* missing end is read as None.
UnknownEnds ==
    {k \in 1..Len(DocEdges) :
        EdgeFrom(k) \notin DocIds \/ EdgeTo(k) \notin DocIds}

\* The end _build_graph names in the message: of the first such edge, the
\* source when it is unknown, else the destination.
FirstUnknownEnd ==
    LET k == CHOOSE i \in UnknownEnds : \A j \in UnknownEnds : i <= j
    IN IF EdgeFrom(k) \notin DocIds THEN EdgeFrom(k) ELSE EdgeTo(k)

\* C15 as the specification states it: a call on a document one of whose
\* edges names a node that is not in the document raises
\* NodeNotFoundError and returns no per-node results.
C15_UnknownEnd ==
    UnknownEnds # {} =>
        /\ pc \in {"idle", "raised"}
        /\ results = <<>>
        /\ \A i \in 1..Len(history) :
               /\ history[i].raised = "NodeNotFoundError"
               /\ history[i].results = <<>>

\* C15: a call on a document that has nodes, all of registered types, and
\* an edge one of whose ends is missing or is not a node of the document
\* raises NodeNotFoundError("Edge references unknown node: <end>") and
\* returns no per-node results; a document without nodes or with a node of
\* an unknown type raises the WorkflowError of that check instead.
C15_UnknownEndOfValidNodes ==
    UnknownEnds # {} =>
        IF DocNodes = <<>>
        THEN RejectedWith("WorkflowError", "Workflow has no nodes")
        ELSE IF UnknownTypes # {}
        THEN \A i \in 1..Len(history) : history[i].raised = "WorkflowError"
        ELSE RejectedWith("NodeNotFoundError",
                          "Edge references unknown node: " \o FirstUnknownEnd)

\* C15 happens: a call was made on a document with two valid nodes and an
\* edge that has no source field.
C15_Witness ==
    /\ DocNodes # <<>>
    /\ UnknownTypes = {}
    /\ DocEdges # <<>>
    /\ "fromNodeId" \notin DOMAIN DocEdges[1]
    /\ pc = "raised"
    /\ history[Len(history)].message = "Edge references unknown node: None"

(***************************************************************************)
(* The caller's cancellation signal.  execute(self, workflow) has no       *)
(* parameter for it and reads nothing between two nodes, so the signal is  *)
(* a variable of the caller that no action of the executor reads.          *)
(***************************************************************************)
\* The caller raises the signal while a call is running.
Cancel ==
    /\ pc = "running"
    /\ cancel = -1
    /\ cancel' = Len(invoked)
    /\ UNCHANGED <<workflow, execVars, diskVars, classVars, exprVars,
                   node_call>>

InitCancel ==
    /\ workflow \in IsoDocs
    /\ InitCall
    /\ InitWorld
    /\ NoNodeCall
    /\ NoExpression

NextCancel ==
    \/ \E e \in DOMAIN ExecutorDirs : Execute(e)
    \/ RunNode
    \/ Return
    \/ Cancel

SpecCancel == InitCancel /\ [][NextCancel]_vars

\* C16 as the specification states it: once the cancellation signal is
\* raised, at most the node running at that moment completes, no further
\* node is started, and the results map the caller receives holds entries
\* for the nodes that ran only.
C16_CancelStopsRun ==
    cancel # -1 =>
        /\ Len(invoked) <= cancel + 1
        /\ pc = "returned" =>
               Len(history[Len(history)].results) <= cancel + 1

(***************************************************************************)
(* The node classes on their own: node.execute(inputs) of a Join, an       *)
(* Aggregate and a Select node on tables whose rows are given.             *)
(***************************************************************************)
NULL == "NULL"

\* The values of a key column.
Keys == {"1", "2", NULL}

\* The left tables: the key column k and the column x, whose value tells
\* the rows apart.
LeftFrames ==
    {Frame(<<"k", "x">>,
           [i \in 1..Len(ks) |-> <<ks[i], <<"l1", "l2", "l3">>[i]>>]) :
        ks \in SeqsUpTo(Keys, MaxRows)}

\* The right tables: the key column k or j and the column y.
RightFrames ==
    {Frame(<<key, "y">>,
           [i \in 1..Len(ks) |-> <<ks[i], <<"r1", "r2", "r3">>[i]>>]) :
        key \in {"k", "j"}, ks \in SeqsUpTo(Keys, MaxRows)}

JoinConfigs ==
    {[leftKey |-> "k", rightKey |-> right_key] : right_key \in {"k", "j"}}
    \cup {[leftKey |-> "k", rightKey |-> right_key, how |-> how] :
              right_key \in {"k", "j"},
              how \in {"inner", "left", "right", "outer", "cross"}}

\* A table of two rows, for the calls in which the rows play no part.
SomeFrame(columns) ==
    Frame(columns, <<[i \in 1..Len(columns) |-> "1"],
                     [i \in 1..Len(columns) |-> "2"]>>)

NodeCall(node_type, config, inputs) ==
    [node_type |-> node_type, config |-> config, inputs |-> inputs]

JoinCalls ==
    {NodeCall("Join", config, <<left, right>>) :
        config \in JoinConfigs, left \in LeftFrames, right \in RightFrames}
    \cup {NodeCall("Join", config, inputs) :
              config \in JoinConfigs,
              inputs \in {<<>>, <<SomeFrame(<<"k", "x">>)>>,
                          <<SomeFrame(<<"k", "x">>), SomeFrame(<<"k", "y">>),
                            SomeFrame(<<"k", "z">>)>>}}

\* The entries of an aggregations list: with the alias s or t, without an
\* alias, with an op that is not valid, with a column the table lacks.
Aggregations ==
    {[col |-> col, op |-> op, as |-> as] :
        col \in {"x", "y"}, op \in {"sum", "max"}, as \in {"s", "t"}}
    \cup {[col |-> "x", op |-> "sum"],
          [col |-> "x", op |-> "median", as |-> "s"],
          [col |-> "q", op |-> "sum", as |-> "s"]}

AggregateConfigs ==
    {[groupBy |-> group_by, aggregations |-> aggregations] :
        group_by \in {<<"k">>, <<"g", "k">>, <<>>, <<"q">>},
        aggregations \in SeqsUpTo(Aggregations, MaxAggregations)}

AggregateCalls ==
    {NodeCall("Aggregate", config, <<SomeFrame(<<"k", "g", "x", "y">>)>>) :
        config \in AggregateConfigs}

\* The tables a Select node is run on: the columns k, x and y.
SelectFrames ==
    {Frame(<<"k", "x", "y">>, rows) :
        rows \in SeqsUpTo({<<"1", "1", "2">>, <<"2", "1", "1">>,
                           <<NULL, "2", "2">>}, MaxRows)}

SelectConfigs ==
    {EmptyConfig}
    \cup {[columns |-> columns] :
              columns \in SeqsUpTo({"k", "x", "y", "q"}, MaxColumns)}

SelectCalls ==
    {NodeCall("Select", config, <<df>>) :
        config \in SelectConfigs, df \in SelectFrames}
    \cup {NodeCall("Select", config, <<>>) : config \in SelectConfigs}

\* The expressions of a Formula node: a column, a column in parentheses, a
\* name that is no column, two names in a row, a forbidden name.
FormulaExpressions ==
    {<<"x">>, <<"(", "k", ")">>, <<"q">>, <<"x", " ", "x">>,
     <<"e", "x", "e", "c">>}

FormulaConfigs ==
    {[expression |-> text] : text \in FormulaExpressions}
    \cup {[newCol |-> new_col, expression |-> text] :
              new_col \in {"y", "x", "k"},
              text \in FormulaExpressions \cup {<<>>}}

FormulaCalls ==
    {NodeCall("Formula", config, <<df>>) :
        config \in FormulaConfigs, df \in LeftFrames}
    \cup {NodeCall("Formula", config, <<>>) : config \in FormulaConfigs}

\* The configs of a Filter node: no expression, the empty expression, a
\* blank one, one that holds of every row, one that names no column.
FilterConfigs ==
    {EmptyConfig, [expression |-> <<>>], [expression |-> <<" ">>],
     [expression |-> <<"x", "=", "=", "x">>],
     [expression |-> <<"q", "=", "=", "x">>], [columns |-> <<"x">>]}

FilterCalls ==
    {NodeCall("Filter", config, <<df>>) :
        config \in FilterConfigs, df \in LeftFrames}
    \cup {NodeCall("Filter", config, <<>>) : config \in FilterConfigs}

NodeCalls ==
    JoinCalls \cup AggregateCalls \cup SelectCalls \cup FormulaCalls
    \cup FilterCalls

InitNode ==
    /\ workflow = [nodes |-> <<>>, edges |-> <<>>]
    /\ InitCall
    /\ InitWorld
    /\ NoExpression
    /\ node_call \in NodeCalls

\* node = NODE_REGISTRY[node_type](node_id, config); node.execute(inputs)
ExecuteNode ==
    Apply(node_call.node_type,
          NodeExecute([node_id |-> "n", node_type |-> node_call.node_type,
                       config |-> node_call.config],
                      node_call.inputs, Env, "None"))

\* self.parser.evaluate_formula(df, expression, new_col), as a Formula node
\* calls it.
EvaluateFormulaCall ==
    /\ node_call.node_type = "Formula"
    /\ node_call.inputs # <<>>
    /\ ConfigGet(node_call.config, "newCol", "") # ""
    /\ node_call.config.expression # <<>>
    /\ Apply("evaluate_formula",
             evaluate_formula(node_call.inputs[1],
                              node_call.config.expression,
                              node_call.config.newCol))

NextNode ==
    \/ ExecuteNode
    \/ EvaluateFormulaCall

SpecNode == InitNode /\ [][NextNode]_vars

\* C17 as the specification states it: a Join node handed a number of
\* inputs other than 2 returns a failed NodeResult whose error tells the
\* number, and joins nothing.
C17_JoinNeedsTwoInputs ==
    (applied.fn = "Join" /\ Len(node_call.inputs) # 2) =>
        /\ ~applied.result.raised
        /\ ~applied.result.success
        /\ applied.result.error
               = "Join requires 2 inputs, got " \o NumStr(Len(node_call.inputs))
        /\ applied.result.data = NoData

\* The position of a name in a list of column names.
IndexOf(columns, name) ==
    CHOOSE i \in 1..Len(columns) :
        columns[i] = name /\ \A j \in 1..(i - 1) : columns[j] # name

\* The values a right row adds to a merged row: the row itself, without its
\* key when both keys have one name and the column is kept once.
RightValues(row, right_columns, left_on, right_on) ==
    IF left_on = right_on
    THEN LET ri == IndexOf(right_columns, right_on)
         IN SubSeq(row, 1, ri - 1) \o SubSeq(row, ri + 1, Len(row))
    ELSE row

\* The rows of pd.merge(left, right, left_on=, right_on=, how=) for how in
\* {inner, left}, which is pandas: the left rows in their order, each
\* joined to the right rows with an equal key in their order (a null key
\* equals a null key), and for how=left a left row without such a right
\* row once, with nulls for the values of the right table.
MergeRows(left, right, left_on, right_on, how) ==
    LET li == IndexOf(left.columns, left_on)
        ri == IndexOf(right.columns, right_on)
        matches(i) ==
            SelectSeq([j \in 1..Len(right.rows) |-> j],
                      LAMBDA j : right.rows[j][ri] = left.rows[i][li])
        nulls == [c \in 1..Len(RightValues(right.columns, right.columns,
                                           left_on, right_on)) |-> NULL]
        block(i) ==
            IF matches(i) = <<>>
            THEN IF how = "left" THEN <<left.rows[i] \o nulls>> ELSE <<>>
            ELSE [m \in 1..Len(matches(i)) |->
                     left.rows[i]
                         \o RightValues(right.rows[matches(i)[m]],
                                        right.columns, left_on, right_on)]
    IN Flat([i \in 1..Len(left.rows) |-> block(i)])

\* The rows of the table a Join node returned for how in {inner, left}, its
\* inputs being tables whose rows are given.
JoinedRows(table, inputs) ==
    MergeRows([columns |-> inputs[1].columns,
               rows |-> table.rows.args[1].cfg],
              [columns |-> inputs[2].columns,
               rows |-> table.rows.args[2].cfg],
              table.rows.cfg[1], table.rows.cfg[2], table.rows.cfg[3])

\* A Join node with how=left was run on two tables and succeeded.
LeftJoined ==
    /\ applied.fn = "Join"
    /\ Len(node_call.inputs) = 2
    /\ applied.result.success
    /\ applied.result.metadata.join_type = "left"

\* C18: in the result of a Join with how=left and valid keys, a left row
\* whose key equals the key of some right rows appears once per such right
\* row, joined to it; a left row without one appears once, with NULL in all
\* the columns of the right table; and every row of the result starts with
\* a left row, so that none comes from an unmatched right row.  Keys match
\* as pd.merge matches them: a null key equals a null key.
C18_LeftJoinKeepsLeftRows ==
    LeftJoined =>
        LET left == node_call.inputs[1]
            right == node_call.inputs[2]
            L == left.rows.cfg
            R == right.rows.cfg
            left_on == applied.result.metadata.left_key
            right_on == applied.result.metadata.right_key
            li == IndexOf(left.columns, left_on)
            ri == IndexOf(right.columns, right_on)
            width == Len(left.columns)
            out == JoinedRows(applied.result.data.value, node_call.inputs)
        IN /\ \A p \in 1..Len(out) :
                  /\ Len(out[p]) = Len(applied.result.data.value.columns)
                  /\ \E i \in 1..Len(L) : SubSeq(out[p], 1, width) = L[i]
           /\ \A i \in 1..Len(L) :
                  LET match == {j \in 1..Len(R) : R[j][ri] = L[i][li]}
                      mine == {p \in 1..Len(out) :
                                  SubSeq(out[p], 1, width) = L[i]}
                  IN IF match = {}
                     THEN /\ Cardinality(mine) = 1
                          /\ \A p \in mine :
                                 \A c \in (width + 1)..Len(out[p]) :
                                     out[p][c] = NULL
                     ELSE /\ Cardinality(mine) = Cardinality(match)
                          /\ \A j \in match : \E p \in mine :
                                 SubSeq(out[p], width + 1, Len(out[p]))
                                     = RightValues(R[j], right.columns,
                                                   left_on, right_on)

\* C18 happens: the first left row has two matching right rows and the
\* second has none, and the result has three rows.
C18_Witness ==
    /\ LeftJoined
    /\ node_call.inputs[1].rows.cfg = <<<<"1", "l1">>, <<"2", "l2">>>>
    /\ node_call.inputs[2].rows.cfg = <<<<"1", "r1">>, <<"1", "r2">>>>
    /\ JoinedRows(applied.result.data.value, node_call.inputs)
           = <<<<"1", "l1", "r1">>, <<"1", "l1", "r2">>,
               <<"2", "l2", NULL>>>>

\* The name of the result column of an entry of the aggregations list.
AliasOf(agg) ==
    ConfigGet(agg, "as",
              ConfigGet(agg, "alias",
                        ConfigGet(agg, "col", "") \o "_"
                            \o ConfigGet(agg, "op", "")))

\* C19 as the specification states it: the columns of the result of a
\* successful Aggregate node are the group-by columns in the configured
\* order and then one column per entry of the aggregations list, in list
\* order, named by the alias of the entry, two entries with one alias
\* included.
C19_OneColumnPerAggregation ==
    (applied.fn = "Aggregate" /\ applied.result.success) =>
        LET group_by == ConfigGet(node_call.config, "groupBy", <<>>)
            aggregations == ConfigGet(node_call.config, "aggregations", <<>>)
        IN applied.result.data.value.columns
               = group_by \o [i \in 1..Len(aggregations) |->
                                 AliasOf(aggregations[i])]

\* The rows of the table a Select node built, df[columns], its input being
\* a table whose rows are given: of every input row, in the order of the
\* rows, the values of the columns selected.
SelectedRows(table, inputs) ==
    LET rows == table.rows.args[1].cfg
        columns == table.rows.cfg
    IN [p \in 1..Len(rows) |->
           [c \in 1..Len(columns) |->
               rows[p][IndexOf(inputs[1].columns, columns[c])]]]

\* C20: a Select node with a non-empty columns list fails with "Columns not
\* found: " and the missing names, comma separated, when a listed name is
\* not a column of the input; otherwise it succeeds with a table whose
\* columns are the list and whose rows are the input rows in their order,
\* each reduced to the columns listed.  With an empty or missing list it
\* returns its input, all columns unchanged.
C20_Select ==
    (applied.fn = "Select" /\ node_call.inputs # <<>>) =>
        LET df == node_call.inputs[1]
            columns == ConfigGet(node_call.config, "columns", <<>>)
            missing == SelectSeq(columns,
                                 LAMBDA c : c \notin SeqToSet(df.columns))
            r == applied.result
        IN IF columns = <<>>
           THEN r.success /\ r.data = InputData(1)
           ELSE IF missing # <<>>
           THEN /\ ~r.success
                /\ r.data = NoData
                /\ r.error = "Columns not found: " \o JoinStr(missing, ", ")
           ELSE /\ r.success
                /\ r.data.kind = "fresh"
                /\ r.data.value.columns = columns
                /\ LET out == SelectedRows(r.data.value, node_call.inputs)
                   IN /\ Len(out) = Len(df.rows.cfg)
                      /\ \A p \in 1..Len(out) :
                             \A c \in 1..Len(columns) :
                                 \E i \in 1..Len(df.columns) :
                                     /\ df.columns[i] = columns[c]
                                     /\ out[p][c] = df.rows.cfg[p][i]

\* C20 happens: y and k are selected from a table of two rows.
C20_Witness ==
    /\ applied.fn = "Select"
    /\ applied.result.success
    /\ node_call.config = [columns |-> <<"y", "k">>]
    /\ node_call.inputs[1].rows.cfg = <<<<"2", "1", "1">>, <<"1", "1", "2">>>>
    /\ SelectedRows(applied.result.data.value, node_call.inputs)
           = <<<<"1", "2">>, <<"2", "1">>>>

\* The rows of the table evaluate_formula returned, result[new_column] =
\* df.eval(expr) on a copy of a table whose rows are given: the value of
\* the expression on a row takes the place of the value of the column
\* new_column when the table has it, and is appended to the row when not.
AssignedRows(table, df) ==
    LET rows == table.rows.args[1].cfg
        new_column == table.rows.cfg[1]
        expr == Tail(table.rows.cfg)
        value(p) ==
            "eval(" \o JoinStr(expr, "") \o ") on " \o JoinStr(rows[p], ",")
    IN [p \in 1..Len(rows) |->
           IF Contains(df.columns, new_column)
           THEN [c \in 1..Len(df.columns) |->
                    IF c = IndexOf(df.columns, new_column)
                    THEN value(p) ELSE rows[p][c]]
           ELSE Append(rows[p], value(p))]

\* C21: the table a successful evaluate_formula returns has the rows of the
\* input, one for one; every column other than new_column has its name, its
\* position and its values; new_column is the last column when the input
\* has no column of that name and stands where that column stood when it
\* has; and the table handed in is as it was.
C21_FormulaKeepsOtherColumns ==
    (applied.fn = "evaluate_formula" /\ ~applied.result.raised) =>
        LET df == node_call.inputs[1]
            new_column == node_call.config.newCol
            table == applied.result.table
            out == AssignedRows(table, df)
        IN /\ applied.result.df = df
           /\ Len(out) = Len(df.rows.cfg)
           /\ \A p \in 1..Len(out) : Len(out[p]) = Len(table.columns)
           /\ \A c \in 1..Len(df.columns) :
                  /\ table.columns[c] = df.columns[c]
                  /\ df.columns[c] # new_column =>
                         \A p \in 1..Len(out) : out[p][c] = df.rows.cfg[p][c]
           /\ IF Contains(df.columns, new_column)
              THEN Len(table.columns) = Len(df.columns)
              ELSE table.columns = Append(df.columns, new_column)

\* C21 happens: the column k of a table of two rows was replaced by the
\* value of x, and the column x stands as it stood.
C21_Witness ==
    /\ applied.fn = "evaluate_formula"
    /\ ~applied.result.raised
    /\ node_call.config = [newCol |-> "k", expression |-> <<"x">>]
    /\ Len(node_call.inputs[1].rows.cfg) = 2
    /\ applied.result.table.columns = <<"k", "x">>
    /\ AssignedRows(applied.result.table, node_call.inputs[1])[2][2] = "l2"

(***************************************************************************)
(* Runs of Output nodes: a source that reads an upload or finds none, an   *)
(* Output node of every format, a second Output node, and up to MaxInputs  *)
(* edges between them.                                                     *)
(***************************************************************************)
OutputEdges ==
    {Edge("a", "b", "in"), Edge("a", "c", "in"), Edge("b", "c", "in"),
     Edge("b", "c", "in_1")}

OutputDocs ==
    {[nodes |-> <<NodeDef("a", "ReadCSV", [upload_id |-> upload_id]),
                  NodeDef("b", "Output", config),
                  NodeDef("c", "Output", EmptyConfig)>>,
      edges |-> edges] :
        upload_id \in {"u1", "u2"},
        config \in {EmptyConfig, [format |-> "csv"], [format |-> "json"],
                    PyNone},
        edges \in SeqsUpTo(OutputEdges, MaxInputs)}

InitOutput ==
    /\ workflow \in OutputDocs
    /\ InitCall
    /\ InitWorld
    /\ NoNodeCall
    /\ NoExpression

NextOutput ==
    \/ \E e \in DOMAIN ExecutorDirs : Execute(e)
    \/ RunNode
    \/ Return

SpecOutput == InitOutput /\ [][NextOutput]_vars

\* The ids uuid.uuid4() returned to the Output nodes of a results map.
FileIds(res) ==
    {res[i][2].metadata.file_id :
        i \in {j \in 1..Len(res) : "file_id" \in DOMAIN res[j][2].metadata}}

\* The ids uuid.uuid4() returned so far, in this call and in the calls
\* before it.
DrawnIds ==
    FileIds(results)
    \cup UNION {FileIds(history[c].results) : c \in 1..Len(history)}

\* C22: the execute of an Output node that is handed no input, or whose
\* config names a format other than csv, fails and leaves every file as it
\* was.  When it succeeds, one file was written and no other file changed:
\* the file is output_dir/<file_id>, metadata.file_id is that file_id, the
\* file holds the input table, it did not exist before unless uuid4 returned
\* an id a second time, and data is the very table that was handed in.
C22_OutputWritesOneFile ==
    [][(RunNode /\ CurrentNode.node_type = "Output") =>
        LET config == CurrentNode.config
            inputs == CurrentInputs
            refs == Gathered.inputs
            result == DictGet(results', CurrentId)
            refused ==
                \/ inputs = <<>>
                \/ ~IsNone(config) /\ ConfigGet(config, "format", "csv") # "csv"
        IN /\ refused => ~result.success /\ files' = files /\ dirs' = dirs
           /\ ~result.success => files' = files
           /\ result.success =>
                 LET path == Path(OutputNode_output_dir,
                                  result.metadata.file_id)
                 IN /\ DOMAIN files' = DOMAIN files \cup {path}
                    /\ files'[path] = inputs[1]
                    /\ \A p \in DOMAIN files \ {path} : files'[p] = files[p]
                    /\ path \in DOMAIN files =>
                           result.metadata.file_id \in DrawnIds
                    /\ result.metadata.file_path = path
                    /\ result.data = refs[1]
                    /\ heap'[result.data] = inputs[1]
      ]_vars

\* C22 happens: in one run an Output node of format json ran on the table
\* of the upload and failed, and an Output node wrote that table to a new
\* file of the output directory.
C22_Witness ==
    /\ Len(results) = 3
    /\ results[2][1] = "b"
    /\ results[2][2].error = "Unsupported output format: json"
    /\ results[3][1] = "c"
    /\ results[3][2].success
    /\ "file_id" \in DOMAIN results[3][2].metadata
    /\ Path("outA", results[3][2].metadata.file_id) \in DOMAIN files
    /\ files[Path("outA", results[3][2].metadata.file_id)]
           = Uploaded("upA", "u1")
    /\ Cardinality(DOMAIN files) = Cardinality(DOMAIN InitialFiles) + 1

\* C23: a Filter node whose config has no expression, or the empty one,
\* and that is handed a table succeeds; its data is the table handed in,
\* with every row and every column where it was, and no method of the
\* parser was called.
C23_EmptyFilterPassesThrough ==
    (/\ applied.fn = "Filter"
     /\ node_call.inputs # <<>>
     /\ ConfigGet(node_call.config, "expression", <<>>) = <<>>) =>
        /\ ~applied.result.raised
        /\ applied.result.success
        /\ applied.result.data = InputData(1)
        /\ applied.result.error = "None"
        /\ applied.result.metadata = NoMetadata
        /\ applied.result.parsed = <<>>

\* C23 happens: a Filter node whose expression is the empty string ran on
\* a table of two rows.
C23_Witness ==
    /\ applied.fn = "Filter"
    /\ node_call.config = [expression |-> <<>>]
    /\ Len(node_call.inputs) = 1
    /\ Len(node_call.inputs[1].rows.cfg) = 2
    /\ applied.result.success

\* C24 as the specification states it: the data of a successful execute of
\* a node of any kind is a table the node built, and never one of the
\* tables that were handed to it.
C24_DataIsFresh ==
    (applied.fn \in NODE_REGISTRY /\ applied.result.success) =>
        applied.result.data.kind = "fresh"

\* C25: while a call runs and when it has returned, outputs has an entry
\* for a node id exactly when the execute of that node was called and its
\* result is a success with data that is not None; and from one iteration
\* of the run loop to the next, and to the return, every entry of outputs
\* stays in place, names the same table, and that table is as it was.
C25_OutputsOfSuccesses ==
    /\ [](pc \in {"running", "returned"} =>
            /\ \A id \in SeqToSet(DictKeys(nodes)) \cup SeqToSet(invoked)
                          \cup SeqToSet(DictKeys(outputs)) :
                   DictHas(outputs, id) <=>
                       /\ id \in SeqToSet(invoked)
                       /\ DictHas(results, id)
                       /\ DictGet(results, id).success
                       /\ DictGet(results, id).data # 0
            /\ \A id \in SeqToSet(DictKeys(outputs)) :
                   DictGet(outputs, id) = DictGet(results, id).data)
    /\ [][pc = "running" =>
            \A i \in 1..Len(outputs) :
                /\ Len(outputs') >= i
                /\ outputs'[i] = outputs[i]
                /\ heap'[outputs[i][2]] = heap[outputs[i][2]]]_vars

\* C25 happens: a call returned in which one node succeeded and has its
\* entry, written two iterations before the return, and two nodes failed
\* and have none.
C25_Witness ==
    /\ pc = "returned"
    /\ Len(results) = 3
    /\ results[1][2].success
    /\ DictKeys(outputs) = <<results[1][1]>>
    /\ ~results[2][2].success
    /\ ~results[3][2].success

\* C26 as the specification states it: the column names of the table of a
\* successful Select, Formula, Join or Aggregate node, run on tables whose
\* column names are non-empty and distinct, are non-empty and distinct,
\* whatever the config, a Select whose columns list repeats a name included.
C26_ColumnNamesUnique ==
    (/\ applied.fn \in {"Select", "Formula", "Join", "Aggregate"}
     /\ applied.result.success) =>
        LET data == applied.result.data
            columns == IF data.kind = "input"
                       THEN node_call.inputs[data.idx].columns
                       ELSE data.value.columns
        IN /\ \A i \in 1..Len(columns) : columns[i] # ""
           /\ \A i, j \in 1..Len(columns) :
                  columns[i] = columns[j] => i = j

(***************************************************************************)
(* Runs of a Join node with up to MaxEdges incoming edges: a reads an      *)
(* upload or finds none, b reads an upload, c selects a column of b, and   *)
(* z joins what its edges bring.                                           *)
(***************************************************************************)
JoinEdges ==
    {Edge("a", "z", "in"), Edge("a", "z", "in_1"), Edge("b", "z", "in_0"),
     Edge("c", "z", "in"), Edge("c", "z", "in_1")}

JoinDocs ==
    {[nodes |-> <<NodeDef("a", "ReadCSV", [upload_id |-> upload_id]),
                  NodeDef("b", "ReadCSV", [upload_id |-> "u1"]),
                  NodeDef("c", "Select", [columns |-> <<"k">>]),
                  NodeDef("z", "Join", [leftKey |-> "k", rightKey |-> "k"])>>,
      edges |-> <<Edge("b", "c", "in")>> \o edges] :
        upload_id \in {"u1", "u2"},
        edges \in SeqsUpTo(JoinEdges, MaxEdges)}

InitJoin ==
    /\ workflow \in JoinDocs
    /\ InitCall
    /\ InitWorld
    /\ NoNodeCall
    /\ NoExpression

NextJoin ==
    \/ \E e \in DOMAIN ExecutorDirs : Execute(e)
    \/ RunNode
    \/ Return

SpecJoin == InitJoin /\ [][NextJoin]_vars

\* The sources of the edges into node n, in the order of their toPort, as
\* _gather_inputs sorts them.
UpstreamByPort(n) ==
    LET sorted_inputs == SortedByPort(DictGet(reverse_adj, n))
    IN [i \in 1..Len(sorted_inputs) |-> sorted_inputs[i][1]]

\* C27 as the specification states it: when a Join node of a run has
\* joined, the table it took as left is the output of the source of its
\* edge of the least toPort and the table it took as right is the output of
\* the source of the edge of the next toPort, whether or not a source of
\* one of its edges failed.
C27_JoinSidesFollowPorts ==
    \A x \in 1..Len(results) :
        LET n == results[x][1] IN
        (DictGet(nodes, n).node_type = "Join" /\ results[x][2].success) =>
            LET upstream == UpstreamByPort(n)
                handed == DictGet(inputs_of, n)
            IN \A side \in 1..2 :
                  /\ DictHas(outputs, upstream[side])
                  /\ heap[handed[side]]
                         = heap[DictGet(outputs, upstream[side])]

\* C28: of the response to every call that has ended: the status is
\* "success" only when the call returned and every result is a success;
\* it is "partial" exactly when the call returned with a success and a
\* failure among the results; it is "error" when the call raised or no
\* result is a success; and when the call raised, node_outputs is empty,
\* while a call that returned has one node output per result.
C28_ResponseStatus ==
    \A c \in 1..Len(history) :
        LET returned == history[c]
            response == run_workflow(returned)
            res == returned.results
            some_success == \E i \in 1..Len(res) : res[i][2].success
            some_failure == \E i \in 1..Len(res) : ~res[i][2].success
        IN /\ response.status \in {"success", "partial", "error"}
           /\ response.status = "success" =>
                  returned.raised = "None" /\ ~some_failure
           /\ response.status = "partial" <=>
                  returned.raised = "None" /\ some_success /\ some_failure
           /\ (returned.raised # "None" \/ ~some_success) =>
                  response.status = "error"
           /\ returned.raised # "None" =>
                  response.node_outputs = <<>> /\ Len(response.errors) = 1
           /\ returned.raised = "None" =>
                  DictKeys(response.node_outputs) = DictKeys(res)

\* C28 happens: a call returned three results, one success and two
\* failures, and the response is "partial" with three node outputs and two
\* errors.
C28_Witness ==
    /\ Len(history) = 1
    /\ history[1].raised = "None"
    /\ run_workflow(history[1]).status = "partial"
    /\ Len(run_workflow(history[1]).node_outputs) = 3
    /\ Len(run_workflow(history[1]).errors) = 2

\* The exceptions execute() raises before the run loop.
EngineErrors == {"WorkflowError", "NodeNotFoundError", "CycleDetectedError"}

\* C29: when a call has raised an engine error, the execute of no node was
\* called in it, there is no entry in results nor in outputs and no table
\* was built; and the call that raises leaves every file and every
\* directory as it was.
C29_EngineErrorRunsNothing ==
    /\ [](pc = "raised" =>
            /\ history[Len(history)].raised \in EngineErrors
            /\ history[Len(history)].results = <<>>
            /\ invoked = <<>>
            /\ inputs_of = <<>>
            /\ results = <<>>
            /\ outputs = <<>>
            /\ heap = <<>>)
    /\ [][pc' = "raised" => files' = files /\ dirs' = dirs]_vars

\* C29 happens: a call raised on a cycle between b and c, and a, which
\* reads an upload and is on no cycle, was not executed.
C29_Witness ==
    /\ pc = "raised"
    /\ history[Len(history)].raised = "CycleDetectedError"
    /\ \E k \in 1..Len(DocEdges) : EdgeFrom(k) = "b" /\ EdgeTo(k) = "c"
    /\ \E k \in 1..Len(DocEdges) : EdgeFrom(k) = "c" /\ EdgeTo(k) = "b"
    /\ \A k \in 1..Len(DocEdges) : EdgeTo(k) # "a"
    /\ invoked = <<>>
    /\ files = InitialFiles

(***************************************************************************)
(* Termination of execute().  The call is one thread of sequential code:   *)
(* a loop iteration that can be taken is taken, and the return after the   *)
(* last one is reached, as long as the execute of every node returns.      *)
(***************************************************************************)
\* The for loop has a node left: ENABLED <<RunNode>>_vars, since an
\* iteration always moves pos.
RunNodeEnabled == pc = "running" /\ pos <= Len(execution_order)

\* WF_vars(RunNode), with RunNodeEnabled for ENABLED <<RunNode>>_vars.
RunNodeFair == []<>~RunNodeEnabled \/ []<><<RunNode>>_vars

\* Documents over three nodes whose edges go forward, close a cycle between
\* b and c, loop at c, or repeat.
LoopEdges ==
    {Edge("a", "b", "in"), Edge("b", "c", "in"), Edge("c", "b", "in"),
     Edge("c", "c", "in")}

LoopDocs ==
    {[nodes |-> <<NodeDef("c", "Filter", EmptyConfig),
                  NodeDef("a", "ReadCSV", [upload_id |-> "u1"]),
                  NodeDef("b", "Filter", EmptyConfig)>>,
      edges |-> edges] : edges \in SeqsUpTo(LoopEdges, MaxEdges)}

InitTerminates ==
    /\ workflow \in LoopDocs
    /\ InitCall
    /\ InitWorld
    /\ NoNodeCall
    /\ NoExpression

NextTerminates ==
    \/ \E e \in DOMAIN ExecutorDirs : Execute(e)
    \/ RunNode
    \/ Return

SpecTerminates ==
    /\ InitTerminates
    /\ [][NextTerminates]_vars
    /\ RunNodeFair
    /\ WF_vars(Return)

\* C30: a call that has entered the run loop comes to its return; the
\* order the sort emitted names every node once and no node twice; the
\* loop stands at most one step past the order; and the call that
\* returned has executed the nodes of the order, each once, in that order.
\* (A call that raises does so within execute's first step, before the
\* loop.)
C30_ExecuteTerminates ==
    /\ (pc = "running") ~> (pc = "returned")
    /\ [](pc \in {"running", "returned"} =>
            /\ Len(execution_order) = Len(nodes)
            /\ \A i, j \in 1..Len(execution_order) :
                   execution_order[i] = execution_order[j] => i = j
            /\ pos <= Len(execution_order) + 1
            /\ invoked = SubSeq(execution_order, 1, pos - 1))
    /\ [](pc = "returned" => invoked = execution_order)

\* C30 happens: a call on a document with a duplicated edge and a third
\* edge returned after three iterations.
C30_Witness ==
    /\ pc = "returned"
    /\ Len(DocEdges) = 3
    /\ DocEdges[1] = DocEdges[2]
    /\ Len(invoked) = 3
    /\ Len(history) = 1

====
